---- MODULE Spec2Model ----
(***************************************************************************)
(* Availability accounting core of extremecloud-iq-monitor: the event log, *)
(* the flapping detector (event-counter.service), the polling scheduler    *)
(* and fast poll (polling.service) and the uptime calculator               *)
(* (availability.service).                                                 *)
(*                                                                         *)
(* Time is in milliseconds, as Date.getTime() gives it.  The TIMESTAMP     *)
(* columns of drizzle/0002_productive_zuras.sql keep whole seconds, so the *)
(* clock of the stateful specifications moves in whole seconds and stored  *)
(* timestamps are multiples of 1000.                                       *)
(***************************************************************************)
EXTENDS Integers, Sequences, FiniteSets, TLC

VARIABLES
    now,                      \* the wall clock, new Date().getTime()
    deviceAvailabilityEvents, \* table device_availability_events, in id order
    deviceAvailability,       \* table device_availability (legacy), in id order
    flappingEvents,           \* table flapping_events, in id order
    detectorRuns,             \* ids of event rows a detectFlapping run was made for by their append
    pollingStates,            \* Map<string, PollingState>
    pollingIntervals,         \* Map<number, NodeJS.Timeout>
    timers,                   \* the live setInterval timers of the process
    startCalls,               \* startPolling invocations in flight
    ticks,                    \* pollUserDevices invocations in flight
    stopRequested,            \* per account: stopPolling returned and no startPolling was called since
    fp,                       \* one fastPoll invocation
    rep,                      \* one getAvailabilityReport invocation
    plannedDowntime,          \* table planned_downtime, in id order
    ret,                      \* what the last call of the planned-downtime and report-export helpers returned
    detects                   \* detectFlapping invocations in flight

vars ==
    <<now, deviceAvailabilityEvents, deviceAvailability, flappingEvents, detectorRuns,
      pollingStates, pollingIntervals, timers, startCalls, ticks, stopRequested, fp, rep,
      plannedDowntime, ret, detects>>

(***************************************************************************)
(* Bounds of the model                                                     *)
(***************************************************************************)
Users == {1, 2}

Devices == {"d1", "d2"}

Status == {"up", "down"}

Second == 1000

\* the instant the stateful specifications start at
Epoch == 2 * 3600 * Second

\* longest event log the flapping specification starts from
MaxLogLen == 11

\* whole seconds the clock may drift past a multiple of the flapping window
MaxDrift == 1

\* times the clock may jump by a whole flapping window
MaxJumps == 1

\* rows of flapping_events beyond which the detector is not run again
MaxIncidents == 3

\* pollUserDevices invocations that may be in flight at once
MaxTicks == 1

\* pollUserDevices invocations in flight at once where ticks overlap
OverlappingTicks == 2

\* startPolling invocations that may be in flight at once
MaxStartCalls == 2

\* setInterval timers that may be live at once
MaxTimers == 2

\* rows of device_availability_events beyond which no further tick or
\* recordEvent call begins
MaxPollEvents == 2

\* largest maxRetries fastPoll is called with
MaxRetriesBound == 3

\* the retryDelayMs values fastPoll is called with (1000 is the default)
RetryDelays == {1000, 250}

\* most rows of device_availability a report is computed over
MaxReportRows == 3

\* seconds before Epoch at which the stored state changes of a report lie
ReportOffsets == {3600, 300, 299, 150, 0}

\* the clock readings a report is asked at
ReportNows == {Epoch, Epoch + 400, Epoch + 500, Epoch + Second}

\* the periods a report is asked for
ReportPeriods == {"5m", "1h"}

\* the periods generateReportData is asked for
ExportPeriods == {"5m", "1h", "24h"}

\* SLA targets, in tenths of a percent (995 is the default 99.5)
SlaTargetsX10 == {995, 1000}

\* availability.downtime values handed to the SLA evaluation, in seconds
DownSeconds == {0, 360, 432, 433, 864, 3600}

\* excluded seconds handed to the SLA evaluation
ExcludedSeconds == {0, 3600, 86400}

\* availability.uptimePercentage values, in hundredths of a percent
PercentagesX100 ==
    {10000, 9990, 9989, 9950, 9949, 9900, 9899, 9500, 9499, 9000, 8999}

\* one day, in milliseconds
Day == 24 * 3600 * Second

\* planned windows are created at most this many times per behaviour
MaxWindows == 2

\* the start and end times createPlannedDowntime is called with
PlanTimes ==
    {Epoch, Epoch + 1800 * Second, Epoch + 3600 * Second, Epoch + 3600 * Second + 400}

\* the recurring values createPlannedDowntime is called with
RecurringKinds == {"none", "daily"}

\* the bounds of the ranges calculateExcludedTime is asked about
QueryTimes ==
    {Epoch - 1800 * Second, Epoch + 900 * Second + 500, Epoch + 5400 * Second,
     Epoch + Day - 1800 * Second, Epoch + Day + 5400 * Second}


(***************************************************************************)
(* Arithmetic helpers                                                      *)
(***************************************************************************)
RECURSIVE Pow2(_)
\* Math.pow(2, n) for n >= 0
Pow2(n) ==
    IF n <= 0 THEN 1 ELSE 2 * Pow2(n - 1)

\* new Map()
EmptyMap == << >>

RECURSIVE GCD(_, _)
\* greatest common divisor of two naturals, GCD(0, b) = b
GCD(a, b) ==
    IF b = 0 THEN a ELSE GCD(b, a % b)

\* Math.round(ms / 1000): nearest whole number, halves towards +infinity
RoundSeconds(ms) ==
    (ms + 500) \div 1000

(***************************************************************************)
(* event-counter.service: flapping detector                                *)
(***************************************************************************)
FLAPPING_THRESHOLD == 5

FLAPPING_WINDOW == 5 * 60 * 1000

\* FLAPPING_SEVERITY_MAP[n] || "high", with the table read as thresholds
SeverityBands(transitionCount) ==
    IF transitionCount < 10 THEN "low"
    ELSE IF transitionCount < 15 THEN "medium"
    ELSE "high"

\* FLAPPING_SEVERITY_MAP[transitionCount] || "high"
FLAPPING_SEVERITY(transitionCount) ==
    CASE transitionCount = 5 -> "low"
      [] transitionCount = 10 -> "medium"
      [] transitionCount = 15 -> "high"
      [] OTHER -> "high"

\* the rows of device_availability_events of one device with startTime in [from, to]
EventsInRange(rows, userId, deviceId, from, to) ==
    SelectSeq(rows, LAMBDA e :
        /\ e.userId = userId
        /\ e.deviceId = deviceId
        /\ e.startTime >= from
        /\ e.startTime <= to)

RECURSIVE CountFrom(_, _, _)
\* the loop of detectFlapping: lastStatus is "null" before the first event
CountFrom(events, i, lastStatus) ==
    IF i > Len(events) THEN 0
    ELSE (IF lastStatus # "null" /\ lastStatus # events[i].status THEN 1 ELSE 0)
         + CountFrom(events, i + 1, events[i].status)

CountTransitions(events) ==
    CountFrom(events, 1, "null")

\* the unacknowledged flapping rows of a device with startTime >= windowStart
ExistingFlapping(userId, deviceId, windowStart) ==
    { i \in DOMAIN flappingEvents :
        /\ flappingEvents[i].userId = userId
        /\ flappingEvents[i].deviceId = deviceId
        /\ flappingEvents[i].acknowledged = 0
        /\ flappingEvents[i].startTime >= windowStart }

\* the row detectFlapping inserts for a run whose `now` is t
FlappingRow(userId, deviceId, transitionCount, t) ==
    [ userId |-> userId,
      deviceId |-> deviceId,
      transitionCount |-> transitionCount,
      timeWindowSeconds |-> FLAPPING_WINDOW \div 1000,
      startTime |-> t - FLAPPING_WINDOW,
      endTime |-> t,
      severity |-> FLAPPING_SEVERITY(transitionCount),
      acknowledged |-> 0 ]

\* the flapping_events table after detectFlapping(userId, deviceId) ran at time t
\* over the event rows `rows`
FlappingAfterDetect(rows, userId, deviceId, t) ==
    LET windowStart == t - FLAPPING_WINDOW
        recentEvents == EventsInRange(rows, userId, deviceId, windowStart, t)
        transitionCount == CountTransitions(recentEvents)
    IN  IF /\ Len(recentEvents) >= FLAPPING_THRESHOLD
           /\ transitionCount >= FLAPPING_THRESHOLD
           /\ ExistingFlapping(userId, deviceId, windowStart) = {}
        THEN Append(flappingEvents, FlappingRow(userId, deviceId, transitionCount, t))
        ELSE flappingEvents

\* everything but the clock and the flapping table
restOfFlap ==
    <<deviceAvailabilityEvents, deviceAvailability, detectorRuns, pollingStates,
      pollingIntervals, timers, startCalls, ticks, stopRequested, fp, rep,
      plannedDowntime, ret, detects>>

\* detectFlapping(userId, deviceId), called on its own
DetectFlapping(userId, deviceId) ==
    /\ flappingEvents' =
         FlappingAfterDetect(deviceAvailabilityEvents, userId, deviceId, now)
    /\ UNCHANGED <<now, restOfFlap>>

\* an update that flips the flag
AcknowledgeToggles(eventId) ==
    /\ eventId \in DOMAIN flappingEvents
    /\ flappingEvents' =
         [flappingEvents EXCEPT ![eventId].acknowledged = 1 - @]
    /\ UNCHANGED <<now, restOfFlap>>

\* acknowledgeFlappingEvent(eventId): UPDATE ... SET acknowledged = 1 WHERE id = eventId
AcknowledgeFlappingEvent(eventId) ==
    /\ eventId \in DOMAIN flappingEvents
    /\ flappingEvents' = [flappingEvents EXCEPT ![eventId].acknowledged = 1]
    /\ UNCHANGED <<now, restOfFlap>>

\* no detectFlapping invocation in the slot; `returned` is what the last one in
\* it returned: null, or the result of its insert
IdleDetect ==
    [ pc |-> "idle", userId |-> 0, deviceId |-> "none", at |-> 0, transitionCount |-> 0,
      returned |-> "null" ]

\* an insert that looks for an unacknowledged incident of the window once more
InsertIfAbsent(table, row) ==
    IF \E i \in DOMAIN table :
          /\ table[i].userId = row.userId
          /\ table[i].deviceId = row.deviceId
          /\ table[i].acknowledged = 0
          /\ table[i].startTime >= row.startTime
    THEN table
    ELSE Append(table, row)

\* db.insert(flappingEvents).values(row)
InsertFlapping(table, row) ==
    Append(table, row)

\* everything the steps of detectFlapping leave alone but the flapping table
restOfDetect ==
    <<now, deviceAvailabilityEvents, deviceAvailability, detectorRuns, pollingStates,
      pollingIntervals, timers, startCalls, ticks, stopRequested, fp, rep,
      plannedDowntime, ret>>

\* detectFlapping(userId, deviceId) is called: without a database it returns null
\* at once, otherwise it reads the clock and sends the query for the recent events
DetectCall(s, userId, deviceId, dbAvailable) ==
    /\ detects[s].pc = "idle"
    /\ detects' =
         IF dbAvailable
         THEN [detects EXCEPT ![s] = [ pc |-> "events", userId |-> userId,
                                       deviceId |-> deviceId, at |-> now,
                                       transitionCount |-> 0, returned |-> "null" ]]
         ELSE [detects EXCEPT ![s] = IdleDetect]
    /\ UNCHANGED <<flappingEvents, restOfDetect>>

\* the query for the recent events returns (ok) or throws: fewer events or fewer
\* transitions than the threshold end the run, otherwise the query for an
\* existing incident is sent
DetectEvents(s, ok) ==
    /\ detects[s].pc = "events"
    /\ LET windowStart == detects[s].at - FLAPPING_WINDOW
           recentEvents == EventsInRange(deviceAvailabilityEvents, detects[s].userId,
                                         detects[s].deviceId, windowStart, detects[s].at)
           transitionCount == CountTransitions(recentEvents)
       IN  detects' =
             IF /\ ok
                /\ Len(recentEvents) >= FLAPPING_THRESHOLD
                /\ transitionCount >= FLAPPING_THRESHOLD
             THEN [detects EXCEPT ![s].pc = "existing",
                                  ![s].transitionCount = transitionCount]
             ELSE [detects EXCEPT ![s] = IdleDetect]
    /\ UNCHANGED <<flappingEvents, restOfDetect>>

\* the query for an existing unacknowledged incident returns (ok) or throws: with
\* no such incident the insert is sent
DetectExisting(s, ok) ==
    /\ detects[s].pc = "existing"
    /\ detects' =
         IF /\ ok
            /\ ExistingFlapping(detects[s].userId, detects[s].deviceId,
                                detects[s].at - FLAPPING_WINDOW) = {}
         THEN [detects EXCEPT ![s].pc = "insert"]
         ELSE [detects EXCEPT ![s] = IdleDetect]
    /\ UNCHANGED <<flappingEvents, restOfDetect>>

\* the insert of the incident returns (ok) or throws
DetectInsert(s, ok) ==
    /\ detects[s].pc = "insert"
    /\ flappingEvents' =
         IF ok
         THEN InsertFlapping(flappingEvents,
                             FlappingRow(detects[s].userId, detects[s].deviceId,
                                         detects[s].transitionCount, detects[s].at))
         ELSE flappingEvents
    /\ detects' = [detects EXCEPT ![s] =
                     [IdleDetect EXCEPT !.returned = IF ok THEN "result" ELSE "null"]]
    /\ UNCHANGED restOfDetect

\* a second passes
AdvanceClock ==
    /\ ((now - Epoch) % FLAPPING_WINDOW) \div Second < MaxDrift
    /\ now' = now + Second
    /\ UNCHANGED <<flappingEvents, restOfFlap>>

\* a whole detection window passes
JumpClock ==
    /\ (now - Epoch) \div FLAPPING_WINDOW < MaxJumps
    /\ now' = now + FLAPPING_WINDOW
    /\ UNCHANGED <<flappingEvents, restOfFlap>>

(***************************************************************************)
(* polling.service: fastPoll                                               *)
(***************************************************************************)
\* what getLatestApiToken finds: no row, an expired token, a valid one
TokenStates == {"none", "expired", "valid"}

\* a check that only looks for a missing token
TokenMissing(tok) ==
    tok = "none"

\* !token || token.expiresAt < new Date()
TokenInvalid(tok) ==
    tok = "none" \/ tok = "expired"

\* what a getDeviceDetail / getDevices call comes back with: a body with data,
\* a body with error set, a body with neither, or a thrown error
DetailResponses ==
    { [kind |-> "data", connected |-> c] : c \in BOOLEAN }
    \cup { [kind |-> k, connected |-> FALSE] : k \in {"error", "nodata", "throw"} }

\* !response.error && response.data
DetailOk(response) ==
    response.kind = "data"

\* device.connected ? "up" : "down"
StatusOf(connected) ==
    IF connected THEN "up" ELSE "down"

\* the for-loop guard with the bound off by one
LoopGuardOffByOne(attempt, maxRetries) ==
    attempt <= maxRetries + 1

\* attempt <= maxRetries
LoopGuard(attempt, maxRetries) ==
    attempt <= maxRetries

\* a backoff that doubles from the first retry on
BackoffFromTwo(retryDelayMs, attempt) ==
    retryDelayMs * Pow2(attempt)

\* retryDelayMs * Math.pow(2, attempt - 1)
BackoffDelay(retryDelayMs, attempt) ==
    retryDelayMs * Pow2(attempt - 1)

\* everything but the fastPoll invocation
restOfFast ==
    <<now, deviceAvailabilityEvents, deviceAvailability, flappingEvents, detectorRuns,
      pollingStates, pollingIntervals, timers, startCalls, ticks, stopRequested, rep,
      plannedDowntime, ret, detects>>

\* the frame of fastPoll when control reaches the top of the for loop
FastPollLoop(frame) ==
    IF LoopGuard(frame.attempt, frame.maxRetries)
    THEN [frame EXCEPT !.pc = "query"]
    ELSE [frame EXCEPT !.pc = "returned", !.result = "unknown"]

\* fastPoll(userId, deviceId, maxRetries, retryDelayMs) is called and awaits the token
FastPollCall(maxRetries, retryDelayMs) ==
    /\ fp.pc = "idle"
    /\ fp' = [ pc |-> "token", maxRetries |-> maxRetries, retryDelayMs |-> retryDelayMs,
               tokenOk |-> FALSE, attempt |-> 0, queries |-> 0, failures |-> 0,
               firstSuccess |-> "none", lastError |-> "null",
               delay |-> 0, waited |-> 0, result |-> "none" ]
    /\ UNCHANGED restOfFast

\* the token lookup returns
FastPollToken(tok) ==
    /\ fp.pc = "token"
    /\ fp' = IF TokenInvalid(tok)
             THEN [fp EXCEPT !.pc = "returned", !.result = "unknown"]
             ELSE FastPollLoop([fp EXCEPT !.tokenOk = TRUE, !.attempt = 1])
    /\ UNCHANGED restOfFast

\* the single-device query of the current attempt returns
FastPollQuery(response) ==
    /\ fp.pc = "query"
    /\ LET asked == [fp EXCEPT !.queries = @ + 1]
           failed == [asked EXCEPT
                        !.failures = @ + 1,
                        !.lastError = IF response.kind = "throw" THEN "thrown" ELSE "response"]
       IN  fp' =
             IF DetailOk(response)
             THEN [asked EXCEPT
                     !.pc = "returned",
                     !.firstSuccess = StatusOf(response.connected),
                     !.result = StatusOf(response.connected)]
             ELSE IF failed.attempt < failed.maxRetries
             THEN [failed EXCEPT
                     !.pc = "wait",
                     !.delay = BackoffDelay(failed.retryDelayMs, failed.attempt)]
             ELSE FastPollLoop([failed EXCEPT !.attempt = @ + 1])
    /\ UNCHANGED restOfFast

\* the backoff timer of the current attempt expires
FastPollWait ==
    /\ fp.pc = "wait"
    /\ fp' = FastPollLoop([fp EXCEPT !.waited = @ + fp.delay, !.attempt = @ + 1])
    /\ UNCHANGED restOfFast

\* the caller has the result; the next call may be made
FastPollReturn ==
    /\ fp.pc = "returned"
    /\ fp' = [fp EXCEPT !.pc = "idle"]
    /\ UNCHANGED restOfFast

(***************************************************************************)
(* availability.service: getAvailabilityReport                             *)
(***************************************************************************)
\* getPeriodDuration(period), in milliseconds
getPeriodDuration(period) ==
    CASE period = "5m" -> 5 * 60 * 1000
      [] period = "1h" -> 60 * 60 * 1000
      [] period = "24h" -> 24 * 60 * 60 * 1000
      [] period = "7d" -> 7 * 24 * 60 * 60 * 1000
      [] period = "30d" -> 30 * 24 * 60 * 60 * 1000

\* the rows of device_availability of one device with timestamp in [from, to], in id order
StateChangesInRange(rows, userId, deviceId, from, to) ==
    SelectSeq(rows, LAMBDA r :
        /\ r.userId = userId
        /\ r.deviceId = deviceId
        /\ r.timestamp >= from
        /\ r.timestamp <= to)

\* ORDER BY timestamp: every order of the rows with ascending timestamps (rows
\* with equal timestamps come back in either order)
OrderedByTimestamp(rows) ==
    LET n == Len(rows)
        perms == { p \in [1..n -> 1..n] :
                     /\ \A i, j \in 1..n : (i # j) => (p[i] # p[j])
                     /\ \A i \in 1..(n - 1) :
                           rows[p[i]].timestamp <= rows[p[i + 1]].timestamp }
    IN  { [i \in 1..n |-> rows[p[i]]] : p \in perms }

\* the query with the order turned round: the oldest rows of the device
LastStatesAscending(rows, userId, deviceId) ==
    LET own == { i \in DOMAIN rows :
                   rows[i].userId = userId /\ rows[i].deviceId = deviceId }
    IN  { rows[i] : i \in { k \in own :
                              \A m \in own : rows[m].timestamp >= rows[k].timestamp } }

\* ORDER BY timestamp DESC LIMIT 1 over all rows of the device: the rows that may
\* come back, none when the device has no row
LastStates(rows, userId, deviceId) ==
    LET own == { i \in DOMAIN rows :
                   rows[i].userId = userId /\ rows[i].deviceId = deviceId }
    IN  { rows[i] : i \in { k \in own :
                              \A m \in own : rows[m].timestamp <= rows[k].timestamp } }

\* the end of the interval of the i-th state change, with the last one left open
IntervalEndUntilNext(stateChanges, i, windowEnd) ==
    IF i < Len(stateChanges) THEN stateChanges[i + 1].timestamp
    ELSE stateChanges[i].timestamp

\* next ? new Date(next.timestamp) : now
IntervalEnd(stateChanges, i, windowEnd) ==
    IF i < Len(stateChanges) THEN stateChanges[i + 1].timestamp ELSE windowEnd

RECURSIVE AccrueTruncated(_, _, _, _)
\* an accumulation that cuts every interval down to whole seconds as it goes
AccrueTruncated(stateChanges, i, windowEnd, status) ==
    IF i > Len(stateChanges) THEN 0
    ELSE (IF stateChanges[i].status = status
          THEN ((IntervalEnd(stateChanges, i, windowEnd) - stateChanges[i].timestamp)
                   \div 1000) * 1000
          ELSE 0)
         + AccrueTruncated(stateChanges, i + 1, windowEnd, status)

RECURSIVE Accrue(_, _, _, _)
\* the loop over stateChanges from index i on: milliseconds added for `status`
Accrue(stateChanges, i, windowEnd, status) ==
    IF i > Len(stateChanges) THEN 0
    ELSE (IF stateChanges[i].status = status
          THEN IntervalEnd(stateChanges, i, windowEnd) - stateChanges[i].timestamp
          ELSE 0)
         + Accrue(stateChanges, i + 1, windowEnd, status)

RECURSIVE OutagesFrom(_, _, _)
\* the loop over stateChanges from index i on: the outage records pushed
OutagesFrom(stateChanges, i, windowEnd) ==
    IF i > Len(stateChanges) THEN << >>
    ELSE (IF stateChanges[i].status = "down"
          THEN << [ startTime |-> stateChanges[i].timestamp,
                    endTime |-> IntervalEnd(stateChanges, i, windowEnd),
                    durationMs |-> IntervalEnd(stateChanges, i, windowEnd)
                                     - stateChanges[i].timestamp ] >>
          ELSE << >>)
         \o OutagesFrom(stateChanges, i + 1, windowEnd)

\* a percentage that reads "no data" as fully up
UptimePercentageFullWhenIdle(uptimeMs, totalMs) ==
    IF totalMs > 0
    THEN LET g == GCD(uptimeMs, totalMs)
             u == uptimeMs \div g
             t == totalMs \div g
         IN  (2 * 10000 * u + t) \div (2 * t)
    ELSE 10000

\* Math.round(uptimePercentage * 100) / 100, in hundredths of a percent; the
\* quotient uptime / totalTime is taken in lowest terms to stay within 32 bits
UptimePercentageX100(uptimeMs, totalMs) ==
    IF totalMs > 0
    THEN LET g == GCD(uptimeMs, totalMs)
             u == uptimeMs \div g
             t == totalMs \div g
         IN  (2 * 10000 * u + t) \div (2 * t)
    ELSE 0

\* the report for the rows the two queries returned; lastState is << >> or one row
AvailabilityReport(userId, deviceId, period, t, stateChanges, lastState) ==
    LET periodMs == getPeriodDuration(period)
        currentStatus == IF Len(lastState) > 0 THEN lastState[1].status ELSE "unknown"
        uptimeMs ==
            IF Len(stateChanges) = 0
            THEN (IF currentStatus = "up" THEN periodMs ELSE 0)
            ELSE Accrue(stateChanges, 1, t, "up")
        downtimeMs ==
            IF Len(stateChanges) = 0
            THEN (IF currentStatus = "down" THEN periodMs ELSE 0)
            ELSE Accrue(stateChanges, 1, t, "down")
    IN  [ pc |-> "done",
          userId |-> userId,
          deviceId |-> deviceId,
          period |-> period,
          windowStart |-> t - periodMs,
          windowEnd |-> t,
          stateChanges |-> stateChanges,
          uptimePercentageX100 |-> UptimePercentageX100(uptimeMs, uptimeMs + downtimeMs),
          downtime |-> RoundSeconds(downtimeMs),
          uptime |-> RoundSeconds(uptimeMs),
          totalTime |-> RoundSeconds(uptimeMs + downtimeMs),
          outages |-> IF Len(stateChanges) = 0 THEN << >>
                      ELSE OutagesFrom(stateChanges, 1, t),
          lastStateChange |-> IF Len(lastState) > 0 THEN lastState[1].timestamp ELSE -1,
          currentStatus |-> currentStatus ]

\* everything but the report invocation
restOfReport ==
    <<now, deviceAvailabilityEvents, deviceAvailability, flappingEvents, detectorRuns,
      pollingStates, pollingIntervals, timers, startCalls, ticks, stopRequested, fp,
      plannedDowntime, ret, detects>>

\* getAvailabilityReport(userId, deviceId, period)
GetAvailabilityReport(userId, deviceId, period) ==
    /\ rep.pc = "idle"
    /\ LET startTime == now - getPeriodDuration(period)
           inWindow == StateChangesInRange(deviceAvailability, userId, deviceId,
                                           startTime, now)
           last == LastStates(deviceAvailability, userId, deviceId)
       IN  \E stateChanges \in OrderedByTimestamp(inWindow) :
           \E lastState \in IF last = {} THEN { << >> } ELSE { <<r>> : r \in last } :
               rep' = AvailabilityReport(userId, deviceId, period, now,
                                         stateChanges, lastState)
    /\ UNCHANGED restOfReport

\* the caller has the report; the next one may be asked for
ReportReturn ==
    /\ rep.pc = "done"
    /\ rep' = [ pc |-> "idle" ]
    /\ UNCHANGED restOfReport

(***************************************************************************)
(* availability.service: getDevicesAvailabilityStats                       *)
(***************************************************************************)
\* record.durationSeconds || 0
DurationOrZero(record) ==
    IF record.durationSeconds = "null" THEN 0 ELSE record.durationSeconds

\* the rows of an account with timestamp >= startTime, in id order
RowsSince(rows, userId, startTime) ==
    SelectSeq(rows, LAMBDA r : r.userId = userId /\ r.timestamp >= startTime)

\* deviceStats[deviceId].uptime or .downtime: the stored durations of the rows
\* of one device and one status, summed
RECURSIVE StoredSeconds(_, _, _, _)
StoredSeconds(records, i, deviceId, status) ==
    IF i > Len(records) THEN 0
    ELSE (IF records[i].deviceId = deviceId /\ records[i].status = status
          THEN DurationOrZero(records[i]) ELSE 0)
         + StoredSeconds(records, i + 1, deviceId, status)

\* Math.round((uptime / (uptime + downtime)) * 10000) / 100 or 0, in hundredths
StatsPercentageX100(uptime, downtime) ==
    IF uptime + downtime > 0
    THEN (2 * 10000 * uptime + (uptime + downtime)) \div (2 * (uptime + downtime))
    ELSE 0

\* getDevicesAvailabilityStats(userId, period): one entry per device that has a
\* row in the period; the query has no ORDER BY, so lastStatus is the status of
\* whichever row of the device came last
GetDevicesAvailabilityStats(userId, period) ==
    LET startTime == now - getPeriodDuration(period)
        devices == RowsSince(deviceAvailability, userId, startTime)
        ids == { devices[i].deviceId : i \in 1..Len(devices) }
        statuses(d) == { devices[i].status :
                           i \in { j \in 1..Len(devices) : devices[j].deviceId = d } }
    IN  /\ \E lastStatus \in { f \in [ids -> Status] : \A d \in ids : f[d] \in statuses(d) } :
              ret' = [ op |-> "stats",
                       userId |-> userId,
                       period |-> period,
                       stats |-> [ d \in ids |->
                           [ uptimePercentageX100 |->
                                 StatsPercentageX100(
                                     StoredSeconds(devices, 1, d, "up"),
                                     StoredSeconds(devices, 1, d, "down")),
                             lastStatus |-> lastStatus[d] ] ] ]
        /\ UNCHANGED <<now, deviceAvailabilityEvents, deviceAvailability, flappingEvents,
                       detectorRuns, pollingStates, pollingIntervals, timers, startCalls,
                       ticks, stopRequested, fp, rep, plannedDowntime, detects>>

(***************************************************************************)
(* event-counter.service: recordEvent                                      *)
(***************************************************************************)
\* everything recordEvent leaves alone
restOfRecord ==
    <<now, deviceAvailability, pollingStates, pollingIntervals, timers, startCalls,
      ticks, stopRequested, fp, rep, plannedDowntime, ret, detects>>

\* the row recordEvent and recordDeviceStateChangeWithMethod insert
EventRow(userId, deviceId, status, detectionMethod) ==
    [ userId |-> userId,
      deviceId |-> deviceId,
      status |-> status,
      startTime |-> now,
      detectionMethod |-> detectionMethod ]

\* recordEvent(userId, deviceId, status, detectionMethod): the insert, then
\* detectFlapping; an insert that throws is caught and nothing else is done
RecordEvent(userId, deviceId, status, detectionMethod, insertOk) ==
    LET row == EventRow(userId, deviceId, status, detectionMethod)
        rows == Append(deviceAvailabilityEvents, row)
        seen == EventsInRange(rows, userId, deviceId, now - FLAPPING_WINDOW, now)
    IN  /\ IF insertOk
           THEN /\ deviceAvailabilityEvents' = rows
                /\ flappingEvents' = FlappingAfterDetect(rows, userId, deviceId, now)
                /\ detectorRuns' =
                     IF \E i \in DOMAIN seen : seen[i] = row
                     THEN detectorRuns \cup {Len(rows)}
                     ELSE detectorRuns
           ELSE UNCHANGED <<deviceAvailabilityEvents, flappingEvents, detectorRuns>>
        /\ UNCHANGED restOfRecord

(***************************************************************************)
(* polling.service: startPolling, stopPolling, pollUserDevices             *)
(***************************************************************************)
\* a slot of `ticks` with no pollUserDevices invocation in it
IdleTick ==
    [ pc |-> "idle", userId |-> 0, origin |-> "none", token |-> "none",
      devices |-> << >>, i |-> 0, startTime |-> 0, last |-> "none" ]

\* the devices the inventory API lists for each account
Inventory ==
    [ u \in Users |-> IF u = 1 THEN <<"d1", "d2">> ELSE <<"d1">> ]

\* response.data of getDevices: the account's devices, each with its connected flag
DeviceLists(userId) ==
    { [ i \in 1..Len(Inventory[userId]) |->
          [id |-> Inventory[userId][i], connected |-> c[i]] ] :
      c \in [1..Len(Inventory[userId]) -> BOOLEAN] }

\* what getDevices comes back with: error set, no data array, or a device list
ListResponses(userId) ==
    { [kind |-> "error", devices |-> << >>], [kind |-> "nodata", devices |-> << >>] }
    \cup { [kind |-> "data", devices |-> l] : l \in DeviceLists(userId) \cup { << >> } }

\* map.set(key, value)
MapSet(map, key, value) ==
    [ k \in DOMAIN map \cup {key} |-> IF k = key THEN value ELSE map[k] ]

\* map.delete(key)
MapDelete(map, key) ==
    [ k \in DOMAIN map \ {key} |-> map[k] ]

\* the Timeout object setInterval returns: one not live at the moment
FreshTimer ==
    CHOOSE n \in 1..(Cardinality(timers) + 1) : \A t \in timers : t.id # n

\* startPolling invocations in flight
InFlightStarts ==
    LET sum[u \in 0..2] ==
            IF u = 0 THEN 0 ELSE sum[u - 1] + startCalls[u].config + startCalls[u].poll
    IN  sum[2]

\* the lowest slot of `ticks` with no invocation in it
FreeSlot ==
    CHOOSE s \in DOMAIN ticks :
        ticks[s].pc = "idle" /\ \A r \in DOMAIN ticks : ticks[r].pc = "idle" => s <= r

HasFreeSlot ==
    \E s \in DOMAIN ticks : ticks[s].pc = "idle"

\* the frame of pollUserDevices(userId, config) at its first await
NewTick(userId, origin) ==
    [ pc |-> "token", userId |-> userId, origin |-> origin, token |-> "none",
      devices |-> << >>, i |-> 0, startTime |-> 0, last |-> "none" ]

\* the timers and the map after stopPolling(userId)
TimersAfterStop(userId) ==
    IF userId \in DOMAIN pollingIntervals
    THEN { t \in timers : t.id # pollingIntervals[userId] }
    ELSE timers

IntervalsAfterStop(userId) ==
    IF userId \in DOMAIN pollingIntervals
    THEN MapDelete(pollingIntervals, userId)
    ELSE pollingIntervals

\* everything the scheduler calls leave alone
restOfSched ==
    <<now, deviceAvailabilityEvents, deviceAvailability, flappingEvents, detectorRuns,
      pollingStates, fp, rep, plannedDowntime, ret, detects>>

\* startPolling(userId) up to its first await: stopPolling, then the config lookup
StartPolling(userId) ==
    /\ timers' = TimersAfterStop(userId)
    /\ pollingIntervals' = IntervalsAfterStop(userId)
    /\ startCalls' = [startCalls EXCEPT ![userId].config = @ + 1]
    /\ stopRequested' = [stopRequested EXCEPT ![userId] = FALSE]
    /\ UNCHANGED <<ticks, restOfSched>>

\* getPollingConfig returns to startPolling: a disabled (or missing) config ends
\* the call, an enabled one starts the initial poll
StartConfigDone(userId, enabled) ==
    /\ startCalls[userId].config > 0
    /\ IF enabled
       THEN /\ HasFreeSlot
            /\ ticks' = [ticks EXCEPT ![FreeSlot] = NewTick(userId, "start")]
            /\ startCalls' = [startCalls EXCEPT ![userId].config = @ - 1,
                                                ![userId].poll = @ + 1]
       ELSE /\ startCalls' = [startCalls EXCEPT ![userId].config = @ - 1]
            /\ UNCHANGED ticks
    /\ UNCHANGED <<timers, pollingIntervals, stopRequested, restOfSched>>

\* stopPolling(userId)
StopPolling(userId) ==
    /\ timers' = TimersAfterStop(userId)
    /\ pollingIntervals' = IntervalsAfterStop(userId)
    /\ stopRequested' = [stopRequested EXCEPT ![userId] = TRUE]
    /\ UNCHANGED <<startCalls, ticks, restOfSched>>

\* stopAllPolling(): stopPolling for every key of pollingIntervals
StopAllPolling ==
    /\ timers' = { t \in timers :
                     \A u \in DOMAIN pollingIntervals : t.id # pollingIntervals[u] }
    /\ pollingIntervals' = EmptyMap
    /\ stopRequested' = [ u \in Users |->
                            stopRequested[u] \/ u \in DOMAIN pollingIntervals ]
    /\ UNCHANGED <<startCalls, ticks, restOfSched>>

\* a live timer fires: pollUserDevices(userId, config) runs to its first await
TickFire(timer) ==
    /\ timer \in timers
    /\ HasFreeSlot
    /\ ticks' = [ticks EXCEPT ![FreeSlot] = NewTick(timer.userId, "timer")]
    /\ UNCHANGED <<timers, pollingIntervals, startCalls, stopRequested, restOfSched>>

\* pollUserDevices in slot s moves on to its next await
TickMoves(s, frame) ==
    /\ ticks' = [ticks EXCEPT ![s] = frame]
    /\ UNCHANGED <<timers, pollingIntervals, startCalls>>

\* a tick whose failure reaches the timer loop and takes every timer down
TickEndsFatal(s, outcome) ==
    /\ ticks' = [ticks EXCEPT ![s] = [IdleTick EXCEPT !.last = outcome]]
    /\ IF outcome \in {"notoken", "error", "caught"}
       THEN /\ timers' = {}
            /\ pollingIntervals' = EmptyMap
            /\ UNCHANGED startCalls
       ELSE UNCHANGED <<timers, pollingIntervals, startCalls>>

\* pollUserDevices in slot s returns; the initial poll of a startPolling call
\* resumes that call, which sets the interval up and registers it
TickEnds(s, outcome) ==
    /\ ticks' = [ticks EXCEPT ![s] = [IdleTick EXCEPT !.last = outcome]]
    /\ IF ticks[s].origin = "start"
       THEN /\ timers' = timers \cup { [id |-> FreshTimer, userId |-> ticks[s].userId] }
            /\ pollingIntervals' = MapSet(pollingIntervals, ticks[s].userId, FreshTimer)
            /\ startCalls' = [startCalls EXCEPT ![ticks[s].userId].poll = @ - 1]
       ELSE UNCHANGED <<timers, pollingIntervals, startCalls>>

\* the device loop from device i on, up to its next await: a device whose status
\* equals state.lastStatus only has lastCheckTime set; the first device whose
\* status differs stops the loop at recordDeviceStateChangeWithMethod.
\* at = 0 says the loop ran to its end
RECURSIVE DeviceLoop(_, _, _, _)
DeviceLoop(states, userId, devices, i) ==
    IF i > Len(devices)
    THEN [states |-> states, at |-> 0]
    ELSE LET key == <<userId, devices[i].id>>
             state == IF key \in DOMAIN states
                      THEN states[key]
                      ELSE [lastStatus |-> "null", lastCheckTime |-> now,
                            failureCount |-> 0]
         IN  IF state.lastStatus # StatusOf(devices[i].connected)
             THEN [states |-> MapSet(states, key, state), at |-> i]
             ELSE DeviceLoop(MapSet(states, key, [state EXCEPT !.lastCheckTime = now]),
                             userId, devices, i + 1)

\* pollUserDevices in slot s runs its loop from device i on; at a device whose
\* status differs, recordDeviceStateChangeWithMethod builds the row, startTime:
\* new Date() included, and awaits the insert
TickLoops(s, states, devices, i) ==
    LET r == DeviceLoop(states, ticks[s].userId, devices, i)
    IN  /\ pollingStates' = r.states
        /\ IF r.at = 0
           THEN TickEnds(s, "done")
           ELSE TickMoves(s, [ticks[s] EXCEPT !.pc = "record",
                                              !.devices = devices,
                                              !.i = r.at,
                                              !.startTime = now])

\* getLatestApiToken returns to pollUserDevices
TickToken(s, tok) ==
    /\ ticks[s].pc = "token"
    /\ IF TokenInvalid(tok)
       THEN TickEnds(s, "notoken")
       ELSE TickMoves(s, [ticks[s] EXCEPT !.pc = "fetch", !.token = tok])
    /\ UNCHANGED <<pollingStates, stopRequested, now, deviceAvailabilityEvents,
                   deviceAvailability, flappingEvents, detectorRuns, fp, rep,
                   plannedDowntime, ret, detects>>

\* the query of getLatestApiToken rejects: the catch of pollUserDevices logs the
\* error and the tick returns
TickThrows(s) ==
    /\ ticks[s].pc = "token"
    /\ TickEnds(s, "caught")
    /\ UNCHANGED <<pollingStates, stopRequested, now, deviceAvailabilityEvents,
                   deviceAvailability, flappingEvents, detectorRuns, fp, rep,
                   plannedDowntime, ret, detects>>

\* getDevices returns to pollUserDevices
TickFetch(s, response) ==
    /\ ticks[s].pc = "fetch"
    /\ IF response.kind = "data"
       THEN TickLoops(s, pollingStates, response.devices, 1)
       ELSE TickEnds(s, response.kind) /\ UNCHANGED pollingStates
    /\ UNCHANGED <<stopRequested, now, deviceAvailabilityEvents, deviceAvailability,
                   flappingEvents, detectorRuns, fp, rep, plannedDowntime, ret, detects>>

\* the device the loop of slot s is at, and its reported status
TickDevice(s) ==
    ticks[s].devices[ticks[s].i].id

TickStatus(s) ==
    StatusOf(ticks[s].devices[ticks[s].i].connected)

\* recordDeviceStateChangeWithMethod has returned: state.lastStatus = currentStatus,
\* failureCount = 0, lastCheckTime = new Date(), and the loop goes on
TickUpdates(s) ==
    LET key == <<ticks[s].userId, TickDevice(s)>>
        states == [pollingStates EXCEPT ![key] =
                     [lastStatus |-> TickStatus(s), lastCheckTime |-> now,
                      failureCount |-> 0]]
    IN  TickLoops(s, states, ticks[s].devices, ticks[s].i + 1)

\* the row the tick of slot s is inserting: its startTime was taken when the
\* insert was sent
TickEventRow(s) ==
    [EventRow(ticks[s].userId, TickDevice(s), TickStatus(s), "polling")
        EXCEPT !.startTime = ticks[s].startTime]

\* recordDeviceStateChangeWithMethod(userId, deviceId, currentStatus, "polling"):
\* the insert into the event log.  Without a database, or when the insert throws
\* (caught and logged), it returns with nothing written
TickRecord(s, insertOk) ==
    /\ ticks[s].pc = "record"
    /\ IF insertOk
       THEN /\ deviceAvailabilityEvents' =
                 Append(deviceAvailabilityEvents, TickEventRow(s))
            /\ TickMoves(s, [ticks[s] EXCEPT !.pc = "legacy"])
            /\ UNCHANGED pollingStates
       ELSE /\ UNCHANGED deviceAvailabilityEvents
            /\ TickUpdates(s)
    /\ UNCHANGED <<now, deviceAvailability, flappingEvents, detectorRuns, stopRequested,
                   fp, rep, plannedDowntime, ret, detects>>

\* recordDeviceStateChange, the insert into the legacy table, returns (a throw is
\* caught inside it)
TickLegacy(s, legacyOk) ==
    /\ ticks[s].pc = "legacy"
    /\ deviceAvailability' =
         IF legacyOk
         THEN Append(deviceAvailability,
                     [ userId |-> ticks[s].userId,
                       deviceId |-> TickDevice(s),
                       status |-> TickStatus(s),
                       timestamp |-> now,
                       durationSeconds |-> "null" ])
         ELSE deviceAvailability
    /\ TickUpdates(s)
    /\ UNCHANGED <<now, deviceAvailabilityEvents, flappingEvents, detectorRuns,
                   stopRequested, fp, rep, plannedDowntime, ret, detects>>

(***************************************************************************)
(* planned-downtime.service: createPlannedDowntime, calculateExcludedTime  *)
(***************************************************************************)
\* everything the planned-downtime calls leave alone
restOfDowntime ==
    <<now, deviceAvailabilityEvents, deviceAvailability, flappingEvents, detectorRuns,
      pollingStates, pollingIntervals, timers, startCalls, ticks, stopRequested, fp, rep,
      detects>>

Max(a, b) == IF a >= b THEN a ELSE b

Min(a, b) == IF a <= b THEN a ELSE b

\* what a TIMESTAMP column keeps of a Date: the nearest whole second
StoredTimestamp(ms) ==
    RoundSeconds(ms) * 1000

\* rangesOverlap(start1, end1, start2, end2)
rangesOverlap(start1, end1, start2, end2) ==
    start1 < end2 /\ start2 < end1

\* getPlannedDowntimeForDevice(userId, deviceId): the rows of the device, none
\* without a database or when the query throws
getPlannedDowntimeForDevice(rows, userId, deviceId, dbOk) ==
    IF dbOk
    THEN SelectSeq(rows, LAMBDA w : w.userId = userId /\ w.deviceId = deviceId)
    ELSE << >>

\* getOverlappingPlannedDowntime(userId, deviceId, startTime, endTime)
getOverlappingPlannedDowntime(rows, userId, deviceId, startTime, endTime, dbOk) ==
    SelectSeq(getPlannedDowntimeForDevice(rows, userId, deviceId, dbOk),
              LAMBDA w : rangesOverlap(startTime, endTime, w.startTime, w.endTime))

\* a loop that adds the whole length of every overlapping window
RECURSIVE TotalExcludedWhole(_, _, _, _)
TotalExcludedWhole(windows, i, startTime, endTime) ==
    IF i > Len(windows) THEN 0
    ELSE (windows[i].endTime - windows[i].startTime)
         + TotalExcludedWhole(windows, i + 1, startTime, endTime)

\* the loop of calculateExcludedTime from window i on: totalExcludedMs
RECURSIVE TotalExcludedMs(_, _, _, _)
TotalExcludedMs(windows, i, startTime, endTime) ==
    IF i > Len(windows) THEN 0
    ELSE Max(0, Min(endTime, windows[i].endTime) - Max(startTime, windows[i].startTime))
         + TotalExcludedMs(windows, i + 1, startTime, endTime)

\* calculateExcludedTime(userId, deviceId, startTime, endTime), in seconds
calculateExcludedTime(rows, userId, deviceId, startTime, endTime, dbOk) ==
    TotalExcludedMs(
        getOverlappingPlannedDowntime(rows, userId, deviceId, startTime, endTime, dbOk),
        1, startTime, endTime) \div 1000

\* a create that stores the window whatever its range
RangeAccepted(startTime, endTime) ==
    TRUE

\* !(startTime >= endTime), the check createPlannedDowntime throws on
RangeValid(startTime, endTime) ==
    ~(startTime >= endTime)

\* createPlannedDowntime(userId, deviceId, title, startTime, endTime, description,
\* recurring): null without a database, for startTime >= endTime and when the
\* insert throws; the insert result otherwise
CreatePlannedDowntime(userId, deviceId, startTime, endTime, recurring, dbOk) ==
    LET stored == dbOk /\ RangeValid(startTime, endTime)
    IN  /\ plannedDowntime' =
              IF stored
              THEN Append(plannedDowntime,
                          [ userId |-> userId,
                            deviceId |-> deviceId,
                            startTime |-> StoredTimestamp(startTime),
                            endTime |-> StoredTimestamp(endTime),
                            recurring |-> recurring ])
              ELSE plannedDowntime
        /\ ret' = [ op |-> "create",
                    userId |-> userId,
                    deviceId |-> deviceId,
                    startTime |-> startTime,
                    endTime |-> endTime,
                    dbOk |-> dbOk,
                    result |-> IF stored THEN "inserted" ELSE "null" ]
        /\ UNCHANGED restOfDowntime

\* calculateExcludedTime(userId, deviceId, startTime, endTime) is called
CalculateExcludedTime(userId, deviceId, startTime, endTime, dbOk) ==
    /\ ret' = [ op |-> "excluded",
                userId |-> userId,
                deviceId |-> deviceId,
                startTime |-> startTime,
                endTime |-> endTime,
                dbOk |-> dbOk,
                result |-> calculateExcludedTime(plannedDowntime, userId, deviceId,
                                                 startTime, endTime, dbOk) ]
    /\ UNCHANGED <<plannedDowntime, restOfDowntime>>

(***************************************************************************)
(* routers/advanced-availability: the mutations that take an id            *)
(***************************************************************************)
\* the place of a deleted row of planned_downtime: ids are not given again
NoWindow ==
    [ userId |-> 0, deviceId |-> "none", startTime |-> 0, endTime |-> 0,
      recurring |-> "none" ]

\* the rows of planned_downtime that are there
StoredWindows ==
    { i \in DOMAIN plannedDowntime : plannedDowntime[i] # NoWindow }

\* updatePlannedDowntime(windowId, updates): UPDATE ... SET updates WHERE id =
\* windowId; updates holds the fields the request gave
updatePlannedDowntime(rows, windowId, updates, dbOk) ==
    IF dbOk /\ windowId \in DOMAIN rows /\ rows[windowId] # NoWindow
    THEN [rows EXCEPT ![windowId] =
            [@ EXCEPT !.startTime = IF "startTime" \in DOMAIN updates
                                    THEN StoredTimestamp(updates.startTime) ELSE @,
                      !.endTime = IF "endTime" \in DOMAIN updates
                                  THEN StoredTimestamp(updates.endTime) ELSE @]]
    ELSE rows

\* deletePlannedDowntime(windowId): DELETE ... WHERE id = windowId
deletePlannedDowntime(rows, windowId, dbOk) ==
    IF dbOk /\ windowId \in DOMAIN rows
    THEN [rows EXCEPT ![windowId] = NoWindow]
    ELSE rows

\* acknowledgeFlappingEvent(eventId): UPDATE ... SET acknowledged = 1 WHERE id = eventId
acknowledgeFlappingEvent(rows, eventId, dbOk) ==
    IF dbOk /\ eventId \in DOMAIN rows
    THEN [rows EXCEPT ![eventId].acknowledged = 1]
    ELSE rows

\* everything the mutations leave alone but the two tables and the return value
restOfRequest ==
    <<now, deviceAvailabilityEvents, deviceAvailability, detectorRuns, pollingStates,
      pollingIntervals, timers, startCalls, ticks, stopRequested, fp, rep, detects>>

\* plannedDowntime.update, called by the signed-in account `caller`
UpdateRequest(caller, windowId, updates, dbOk) ==
    /\ plannedDowntime' = updatePlannedDowntime(plannedDowntime, windowId, updates, dbOk)
    /\ ret' = [ op |-> "update", caller |-> caller, id |-> windowId,
                result |-> IF dbOk THEN "true" ELSE "null" ]
    /\ UNCHANGED <<flappingEvents, restOfRequest>>

\* plannedDowntime.delete, called by the signed-in account `caller`
DeleteRequest(caller, windowId, dbOk) ==
    /\ plannedDowntime' = deletePlannedDowntime(plannedDowntime, windowId, dbOk)
    /\ ret' = [ op |-> "delete", caller |-> caller, id |-> windowId,
                result |-> IF dbOk THEN "true" ELSE "false" ]
    /\ UNCHANGED <<flappingEvents, restOfRequest>>

\* events.acknowledgeFlappingEvent, called by the signed-in account `caller`
AcknowledgeRequest(caller, eventId, dbOk) ==
    /\ flappingEvents' = acknowledgeFlappingEvent(flappingEvents, eventId, dbOk)
    /\ ret' = [ op |-> "acknowledge", caller |-> caller, id |-> eventId,
                result |-> IF dbOk THEN "true" ELSE "null" ]
    /\ UNCHANGED <<plannedDowntime, restOfRequest>>

(***************************************************************************)
(* report-export.service: generateReportData; the dashboard's indicator    *)
(***************************************************************************)
\* getUptimeStatus(uptimePercentage), the percentage in hundredths of a percent
getUptimeStatus(uptimePercentageX100) ==
    IF uptimePercentageX100 >= 9990 THEN "excellent"
    ELSE IF uptimePercentageX100 >= 9950 THEN "very-good"
    ELSE IF uptimePercentageX100 >= 9900 THEN "good"
    ELSE IF uptimePercentageX100 >= 9500 THEN "fair"
    ELSE "poor"

\* getStatus(uptime) of AvailabilityIndicator, the percentage in hundredths of a percent
getStatus(uptimeX100) ==
    IF uptimeX100 >= 9990 THEN "excellent"
    ELSE IF uptimeX100 >= 9900 THEN "very-good"
    ELSE IF uptimeX100 >= 9500 THEN "good"
    ELSE IF uptimeX100 >= 9000 THEN "fair"
    ELSE "poor"

\* achievedUptime as the fraction num / den of a percent:
\* availableSeconds > 0 ? ((availableSeconds - downSeconds) / availableSeconds) * 100 : 0
AchievedUptime(availableSeconds, downSeconds) ==
    IF availableSeconds > 0
    THEN [num |-> (availableSeconds - downSeconds) * 100, den |-> availableSeconds]
    ELSE [num |-> 0, den |-> 1]

\* a comparison that asks for more than the target
SlaCompliantStrict(achieved, slaTargetX10) ==
    achieved.num * 10 > slaTargetX10 * achieved.den

\* achievedUptime >= slaTarget, the target in tenths of a percent
SlaCompliant(achieved, slaTargetX10) ==
    achieved.num * 10 >= slaTargetX10 * achieved.den

\* (slaTarget / 100) * availableSeconds - (achievedUptime / 100) * availableSeconds,
\* in thousandths of a second (achieved.den is availableSeconds, or 1 with num 0)
BreachX1000(achieved, slaTargetX10, availableSeconds) ==
    slaTargetX10 * availableSeconds
      - achieved.num * 10 * (availableSeconds \div achieved.den)

\* generateReportData(userId, deviceId, period, slaTarget): null for a device that
\* is not found; the availability block and the SLA block of the report, computed
\* from what getAvailabilityReport and calculateExcludedTime returned, otherwise
GenerateReportData(period, slaTargetX10, deviceFound, availability, excludedSeconds) ==
    LET downtime == availability.downtime
        uptimePercentageX100 == availability.uptimePercentage
        totalSeconds == getPeriodDuration(period) \div 1000
        availableSeconds == totalSeconds - excludedSeconds
        achievedUptime == AchievedUptime(availableSeconds, downtime)
        compliant == SlaCompliant(achievedUptime, slaTargetX10)
        breachDuration ==
            IF compliant THEN 0
            ELSE BreachX1000(achievedUptime, slaTargetX10, availableSeconds)
    IN  /\ ret' =
              IF deviceFound
              THEN [ op |-> "report",
                     result |-> "data",
                     period |-> period,
                     uptimePercentageX100 |-> uptimePercentageX100,
                     downtime |-> downtime,
                     status |-> getUptimeStatus(uptimePercentageX100),
                     totalExcludedSeconds |-> excludedSeconds,
                     target |-> slaTargetX10,
                     achieved |-> achievedUptime,
                     compliant |-> compliant,
                     breachDurationX1000 |-> Max(0, breachDuration) ]
              ELSE [ op |-> "report", result |-> "null" ]
        /\ UNCHANGED <<plannedDowntime, restOfDowntime>>

(***************************************************************************)
(* Values of the variables a specification leaves alone                    *)
(***************************************************************************)
NoStartCalls == [u \in Users |-> [config |-> 0, poll |-> 0]]

IdleFastPoll ==
    [ pc |-> "idle", maxRetries |-> 0, retryDelayMs |-> 0, tokenOk |-> FALSE,
      attempt |-> 0, queries |-> 0, failures |-> 0, firstSuccess |-> "none",
      lastError |-> "null", delay |-> 0, waited |-> 0, result |-> "none" ]

IdleReport == [ pc |-> "idle" ]

\* no call has returned yet
NoReturn == [ op |-> "none" ]

(***************************************************************************)
(* SpecFlap: the flapping detector over a stored event log                 *)
(***************************************************************************)
\* gaps between consecutive stored events
Gaps == {Second, 60 * Second}

\* a log of device d1 of account 1: k events, `gap` apart, the last one at Epoch
StoredLog(k, statuses, gap) ==
    [ i \in 1..k |->
        [ userId |-> 1,
          deviceId |-> "d1",
          status |-> statuses[i],
          startTime |-> Epoch - (k - i) * gap,
          detectionMethod |-> "polling" ] ]

InitFlap ==
    /\ now = Epoch
    /\ \E k \in 0..MaxLogLen : \E statuses \in [1..k -> Status] : \E gap \in Gaps :
          deviceAvailabilityEvents = StoredLog(k, statuses, gap)
    /\ deviceAvailability = << >>
    /\ flappingEvents = << >>
    /\ detectorRuns = {}
    /\ pollingStates = EmptyMap
    /\ pollingIntervals = EmptyMap
    /\ timers = {}
    /\ startCalls = NoStartCalls
    /\ ticks = << >>
    /\ stopRequested = [u \in Users |-> FALSE]
    /\ fp = IdleFastPoll
    /\ rep = IdleReport
    /\ plannedDowntime = << >>
    /\ ret = NoReturn
    /\ detects = << >>

NextFlap ==
    \/ \E u \in Users, d \in Devices :
          Len(flappingEvents) < MaxIncidents /\ DetectFlapping(u, d)
    \/ \E id \in DOMAIN flappingEvents : AcknowledgeFlappingEvent(id)
    \/ AdvanceClock
    \/ JumpClock

SpecFlap == InitFlap /\ [][NextFlap]_vars

\* C1: for one (account, device), two detectFlapping runs that both find the
\* threshold met, one after the other less than a detection window apart and with
\* no acknowledgement in between, leave exactly one unacknowledged incident.
C1_DedupWithinWindow ==
    \A i, j \in DOMAIN flappingEvents :
        ( /\ i < j
          /\ flappingEvents[i].userId = flappingEvents[j].userId
          /\ flappingEvents[i].deviceId = flappingEvents[j].deviceId
          /\ flappingEvents[i].acknowledged = 0
          /\ flappingEvents[j].acknowledged = 0 )
        => flappingEvents[j].endTime - flappingEvents[i].endTime >= FLAPPING_WINDOW

\* the rows the detector run that created incident f looked at
WindowOf(f) ==
    EventsInRange(deviceAvailabilityEvents, f.userId, f.deviceId, f.startTime, f.endTime)

Alternating(events) ==
    \A i \in 1..(Len(events) - 1) : events[i].status # events[i + 1].status

\* C9: severity is an exact-match lookup on the transition count: low iff 5,
\* medium iff 10, high for every other count; 6 alternating events in the window
\* give count 5 and low, 7 alternating events give count 6 and high.
C9_SeverityExactMatch ==
    \A i \in DOMAIN flappingEvents :
        LET f == flappingEvents[i]
            n == f.transitionCount
        IN  /\ n >= 5
            /\ (f.severity = "low") <=> (n = 5)
            /\ (f.severity = "medium") <=> (n = 10)
            /\ (f.severity = "high") <=> (n \notin {5, 10})
            /\ (Alternating(WindowOf(f)) /\ Len(WindowOf(f)) = 6)
                 => (n = 5 /\ f.severity = "low")
            /\ (Alternating(WindowOf(f)) /\ Len(WindowOf(f)) = 7)
                 => (n = 6 /\ f.severity = "high")

\* an incident raised over 7 alternating events: count 6, severity high
C9_Witness ==
    \E i \in DOMAIN flappingEvents :
        /\ Alternating(WindowOf(flappingEvents[i]))
        /\ Len(WindowOf(flappingEvents[i])) = 7
        /\ flappingEvents[i].transitionCount = 6
        /\ flappingEvents[i].severity = "high"

(***************************************************************************)
(* SpecDetect: detectFlapping invocations that overlap, over a stored log  *)
(***************************************************************************)
\* longest event log the overlapping detector runs start from
DetectLogLen == 6

\* detectFlapping invocations in flight at once
DetectSlots == 2

\* the log with the insert of row i landed after the insert of the row sent
\* next: the two rows have each other's place (i = 0: every insert landed in
\* the order it was sent)
LateInsert(log, i) ==
    IF i = 0 THEN log
    ELSE [log EXCEPT ![i] = log[i + 1], ![i + 1] = log[i]]

InitDetect ==
    /\ now = Epoch
    /\ \E k \in 0..DetectLogLen : \E statuses \in [1..k -> Status] : \E gap \in Gaps :
          \E late \in 0..Max(0, k - 1) :
              deviceAvailabilityEvents = LateInsert(StoredLog(k, statuses, gap), late)
    /\ deviceAvailability = << >>
    /\ flappingEvents = << >>
    /\ detectorRuns = {}
    /\ pollingStates = EmptyMap
    /\ pollingIntervals = EmptyMap
    /\ timers = {}
    /\ startCalls = NoStartCalls
    /\ ticks = << >>
    /\ stopRequested = [u \in Users |-> FALSE]
    /\ fp = IdleFastPoll
    /\ rep = IdleReport
    /\ plannedDowntime = << >>
    /\ ret = NoReturn
    /\ detects = [s \in 1..DetectSlots |-> IdleDetect]

NextDetect ==
    \/ \E s \in DOMAIN detects, u \in Users, dbAvailable \in BOOLEAN :
          Len(flappingEvents) < MaxIncidents /\ DetectCall(s, u, "d1", dbAvailable)
    \/ \E s \in DOMAIN detects, ok \in BOOLEAN : DetectEvents(s, ok)
    \/ \E s \in DOMAIN detects, ok \in BOOLEAN : DetectExisting(s, ok)
    \/ \E s \in DOMAIN detects, ok \in BOOLEAN : DetectInsert(s, ok)
    \/ \E id \in DOMAIN flappingEvents : AcknowledgeFlappingEvent(id)

SpecDetect == InitDetect /\ [][NextDetect]_vars

\* the insert of the run in slot s returns its result in this step
InsertReturns(s) ==
    /\ detects[s].pc = "insert"
    /\ detects'[s].pc = "idle"
    /\ detects'[s].returned = "result"

\* C21: the check for an existing incident and the insert of detectFlapping are
\* not atomic: a run that found no unacknowledged incident inserts its own
\* whatever was inserted since, and a run waiting to insert is not called off by
\* the insert of another; two runs that both made the check before either
\* inserted leave two unacknowledged incidents of the same detection window.
C21_CheckThenInsertNotAtomic ==
    [][ \A s \in DOMAIN detects :
          InsertReturns(s) =>
              /\ flappingEvents' =
                    Append(flappingEvents,
                           FlappingRow(detects[s].userId, detects[s].deviceId,
                                       detects[s].transitionCount, detects[s].at))
              /\ \A r \in DOMAIN detects \ {s} : detects'[r] = detects[r]
      ]_vars

RECURSIVE InsertByTime(_, _)
\* the time-ordered sequence `sorted` with event e put after the events that
\* are not later than it
InsertByTime(sorted, e) ==
    IF Len(sorted) = 0 THEN <<e>>
    ELSE IF sorted[Len(sorted)].startTime <= e.startTime THEN Append(sorted, e)
    ELSE Append(InsertByTime(SubSeq(sorted, 1, Len(sorted) - 1), e), sorted[Len(sorted)])

RECURSIVE AscendingTo(_, _)
\* the first n events, in ascending startTime (equal times keep their order)
AscendingTo(events, n) ==
    IF n = 0 THEN << >> ELSE InsertByTime(AscendingTo(events, n - 1), events[n])

\* adjacent pairs of differing status, the events walked in ascending time order
PairsDifferingInTimeOrder(events) ==
    LET sorted == AscendingTo(events, Len(events))
    IN  Cardinality({ i \in 1..(Len(sorted) - 1) : sorted[i].status # sorted[i + 1].status })

\* C22: detectFlapping creates an incident only if the window [now - 300 s, now]
\* holds at least 5 events of the device and at least 5 adjacent pairs of
\* differing status, walked in ascending time order; the incident's
\* transitionCount is that number, its window is 300 s, its startTime now - 300 s
\* and its endTime now; any other step of a run creates nothing and changes no
\* stored record.
C22_IncidentOnlyOnThreshold ==
    [][ \A s \in DOMAIN detects :
          /\ InsertReturns(s) =>
                LET t == detects[s].at
                    w == EventsInRange(deviceAvailabilityEvents, detects[s].userId,
                                       detects[s].deviceId, t - 300 * Second, t)
                    n == PairsDifferingInTimeOrder(w)
                IN  /\ Len(w) >= 5
                    /\ n >= 5
                    /\ Len(flappingEvents') = Len(flappingEvents) + 1
                    /\ \A i \in DOMAIN flappingEvents : flappingEvents'[i] = flappingEvents[i]
                    /\ LET f == flappingEvents'[Len(flappingEvents')]
                       IN  /\ f.userId = detects[s].userId
                           /\ f.deviceId = detects[s].deviceId
                           /\ f.transitionCount = n
                           /\ f.timeWindowSeconds = 300
                           /\ f.startTime = t - 300 * Second
                           /\ f.endTime = t
                           /\ f.acknowledged = 0
                    /\ UNCHANGED <<deviceAvailabilityEvents, deviceAvailability>>
          /\ (detects'[s] # detects[s] /\ ~InsertReturns(s)) =>
                UNCHANGED <<flappingEvents, deviceAvailabilityEvents, deviceAvailability>>
      ]_vars

\* C25: an incident, once created, is changed only by an acknowledgement, which
\* takes acknowledged from 0 to 1 and alters no other field; no step deletes an
\* incident or takes acknowledged back to 0.
C25_IncidentsOnlyAcknowledged ==
    [][ /\ Len(flappingEvents') >= Len(flappingEvents)
        /\ \A i \in DOMAIN flappingEvents :
              \/ flappingEvents'[i] = flappingEvents[i]
              \/ /\ flappingEvents[i].acknowledged = 0
                 /\ flappingEvents'[i] = [flappingEvents[i] EXCEPT !.acknowledged = 1]
                 /\ UNCHANGED detects
                 /\ Len(flappingEvents') = Len(flappingEvents)
      ]_vars

\* an acknowledged incident next to a later one that is not
C25_Witness ==
    \E i, j \in DOMAIN flappingEvents :
        /\ i < j
        /\ flappingEvents[i].acknowledged = 1
        /\ flappingEvents[j].acknowledged = 0

\* two unacknowledged incidents of one device with the same detection window
C21_Witness ==
    \E i, j \in DOMAIN flappingEvents :
        /\ i < j
        /\ flappingEvents[i].userId = flappingEvents[j].userId
        /\ flappingEvents[i].deviceId = flappingEvents[j].deviceId
        /\ flappingEvents[i].startTime = flappingEvents[j].startTime
        /\ flappingEvents[i].endTime = flappingEvents[j].endTime
        /\ flappingEvents[i].acknowledged = 0
        /\ flappingEvents[j].acknowledged = 0

(***************************************************************************)
(* SpecFast: fastPoll                                                      *)
(***************************************************************************)
InitIdle ==
    /\ now = Epoch
    /\ deviceAvailabilityEvents = << >>
    /\ deviceAvailability = << >>
    /\ flappingEvents = << >>
    /\ detectorRuns = {}
    /\ pollingStates = EmptyMap
    /\ pollingIntervals = EmptyMap
    /\ timers = {}
    /\ startCalls = NoStartCalls
    /\ ticks = << >>
    /\ stopRequested = [u \in Users |-> FALSE]
    /\ fp = IdleFastPoll
    /\ rep = IdleReport
    /\ plannedDowntime = << >>
    /\ ret = NoReturn
    /\ detects = << >>

InitFast == InitIdle

\* the steps fastPoll takes once each awaited call returns
FastPollStep ==
    \/ \E tok \in TokenStates : FastPollToken(tok)
    \/ \E response \in DetailResponses : FastPollQuery(response)
    \/ FastPollWait

NextFast ==
    \/ \E maxRetries \in 0..MaxRetriesBound, retryDelayMs \in RetryDelays :
          FastPollCall(maxRetries, retryDelayMs)
    \/ FastPollStep
    \/ FastPollReturn

SpecFast == InitFast /\ [][NextFast]_vars

\* every awaited token lookup, query and timer eventually returns
SpecFastLive == SpecFast /\ WF_vars(FastPollStep)

FastPollRunning == fp.pc \in {"token", "query", "wait"}

C6_Safety ==
    /\ fp.queries <= fp.maxRetries
    /\ fp.queries <= fp.failures + 1
    /\ (fp.firstSuccess # "none") => (fp.pc \in {"returned", "idle"} /\ fp.queries = fp.failures + 1)
    /\ (fp.pc = "returned") =>
          /\ fp.result \in {"up", "down", "unknown"}
          /\ (fp.result # "unknown") => (fp.result = fp.firstSuccess)
          /\ (fp.result = "unknown") <=>
                (~fp.tokenOk \/ (fp.queries = fp.failures /\ fp.queries = fp.maxRetries))
          /\ ~fp.tokenOk => fp.queries = 0

C7_BackoffTotal ==
    /\ (fp.pc = "wait") =>
          /\ 1 <= fp.attempt /\ fp.attempt < fp.maxRetries
          /\ fp.failures = fp.attempt
          /\ fp.delay = fp.retryDelayMs * Pow2(fp.attempt - 1)
    /\ (fp.pc \in {"query", "wait"}) =>
          fp.waited = fp.retryDelayMs * (Pow2(fp.attempt - 1) - 1)
    /\ (fp.pc = "returned" /\ fp.maxRetries >= 1 /\ fp.failures = fp.maxRetries) =>
          fp.waited = fp.retryDelayMs * (Pow2(fp.maxRetries - 1) - 1)
    /\ (fp.pc = "returned" /\ fp.maxRetries = 3 /\ fp.retryDelayMs = 1000
          /\ fp.failures = 3) => fp.waited = 1000 + 2000

\* three failed attempts with the default delay
C7_Witness ==
    /\ fp.pc = "returned"
    /\ fp.maxRetries = 3
    /\ fp.retryDelayMs = 1000
    /\ fp.failures = 3
    /\ fp.result = "unknown"
    /\ fp.waited = 3000

(***************************************************************************)
(* SpecReport: getAvailabilityReport over a stored device_availability     *)
(***************************************************************************)
\* the accounts whose rows a stored table holds
RowOwners == { [userId |-> 1, deviceId |-> "d1"], [userId |-> 2, deviceId |-> "d1"] }

\* a device_availability table: timestamps are whole seconds, ascending in id
\* order (each row takes the now() of its insert); durationSeconds is the NULL
\* every insert of the program leaves it at
StoredTables ==
    UNION { { [ i \in 1..k |->
                  [ userId |-> owner[i].userId,
                    deviceId |-> owner[i].deviceId,
                    status |-> st[i],
                    timestamp |-> Epoch - off[i] * Second,
                    durationSeconds |-> "null" ] ] :
              owner \in [1..k -> RowOwners],
              st \in [1..k -> Status],
              off \in { o \in [1..k -> ReportOffsets] :
                          \A i \in 1..(k - 1) : o[i] >= o[i + 1] } } :
            k \in 0..MaxReportRows }

InitReport ==
    /\ now \in ReportNows
    /\ deviceAvailability \in StoredTables
    /\ deviceAvailabilityEvents = << >>
    /\ flappingEvents = << >>
    /\ detectorRuns = {}
    /\ pollingStates = EmptyMap
    /\ pollingIntervals = EmptyMap
    /\ timers = {}
    /\ startCalls = NoStartCalls
    /\ ticks = << >>
    /\ stopRequested = [u \in Users |-> FALSE]
    /\ fp = IdleFastPoll
    /\ rep = IdleReport
    /\ plannedDowntime = << >>
    /\ ret = NoReturn
    /\ detects = << >>

NextReport ==
    \/ \E u \in {1}, d \in {"d1"}, period \in ReportPeriods :
          GetAvailabilityReport(u, d, period)
    \/ ReportReturn
    \/ \E u \in {1}, period \in ReportPeriods : GetDevicesAvailabilityStats(u, period)

SpecReport == InitReport /\ [][NextReport]_vars

\* the in-window rows of a finished report start exactly at windowStart
NoLeadingGap ==
    /\ rep.pc = "done"
    /\ Len(rep.stateChanges) > 0
    /\ rep.stateChanges[1].timestamp = rep.windowStart

\* milliseconds of the window during which the latest state change at or before
\* each instant has the given status, summed interval by interval
HeldMs(stateChanges, windowEnd, status) ==
    LET n == Len(stateChanges)
        held(i) == IF stateChanges[i].status # status THEN 0
                   ELSE IF i = n THEN windowEnd - stateChanges[i].timestamp
                   ELSE stateChanges[i + 1].timestamp - stateChanges[i].timestamp
        sum[i \in 0..n] == IF i = 0 THEN 0 ELSE sum[i - 1] + held(i)
    IN  sum[n]

\* C10: with the in-window events in ascending order and the first one exactly at
\* windowStart, uptime + downtime of the report is windowEnd - windowStart in
\* whole seconds: each event's status is credited until the next event, the last
\* one until windowEnd.
C10_NoGapCoversWindow ==
    NoLeadingGap =>
        /\ rep.uptime + rep.downtime = (rep.windowEnd - rep.windowStart) \div 1000
        /\ rep.totalTime = rep.uptime + rep.downtime
        /\ rep.uptime = RoundSeconds(HeldMs(rep.stateChanges, rep.windowEnd, "up"))
        /\ rep.downtime = RoundSeconds(HeldMs(rep.stateChanges, rep.windowEnd, "down"))

\* a report over an up event at windowStart followed by a down event
C10_Witness ==
    /\ NoLeadingGap
    /\ Len(rep.stateChanges) = 2
    /\ rep.stateChanges[1].status = "up"
    /\ rep.stateChanges[2].status = "down"
    /\ rep.stateChanges[2].timestamp > rep.stateChanges[1].timestamp
    /\ rep.uptime > 0
    /\ rep.downtime > 0

\* the first in-window row of a finished report is later than windowStart
LeadingGap ==
    /\ rep.pc = "done"
    /\ Len(rep.stateChanges) > 0
    /\ rep.stateChanges[1].timestamp > rep.windowStart

\* firstEvent.occurredAt - windowStart of a finished report, in milliseconds
GapMs ==
    rep.stateChanges[1].timestamp - rep.windowStart

\* C11 as stated: with the first in-window event later than windowStart,
\* uptime + downtime is smaller than windowEnd - windowStart by exactly
\* firstEvent.occurredAt - windowStart.
C11_GapExact ==
    LeadingGap =>
        1000 * (rep.uptime + rep.downtime) = (rep.windowEnd - rep.windowStart) - GapMs

\* C11, amended: the interval before the first in-window event goes to neither
\* uptime nor downtime, so uptime + downtime is windowEnd - firstEvent.occurredAt
\* rounded to whole seconds; that is the window length less the gap exactly when
\* the gap is a whole number of seconds.
C11_GapUnattributed ==
    LeadingGap =>
        /\ rep.uptime + rep.downtime
              = RoundSeconds(rep.windowEnd - rep.stateChanges[1].timestamp)
        /\ rep.totalTime = rep.uptime + rep.downtime
        /\ (GapMs % 1000 = 0) =>
              1000 * (rep.uptime + rep.downtime)
                = (rep.windowEnd - rep.windowStart) - GapMs

\* a report over two events, the first one an odd half second after windowStart
C11_Witness ==
    /\ LeadingGap
    /\ GapMs % 1000 = 500
    /\ Len(rep.stateChanges) = 2
    /\ rep.stateChanges[2].timestamp > rep.stateChanges[1].timestamp
    /\ rep.uptime + rep.downtime > 0

\* a finished report found no row in its window
EmptyWindow ==
    /\ rep.pc = "done"
    /\ Len(rep.stateChanges) = 0

\* the stored rows of the device a finished report is about
RowsOfReport ==
    { i \in DOMAIN deviceAvailability :
        /\ deviceAvailability[i].userId = rep.userId
        /\ deviceAvailability[i].deviceId = rep.deviceId }

\* C12: a report over a window without events credits the whole window length to
\* uptime when the device's most recent event overall is up, to downtime when it
\* is down, and reports currentStatus unknown with uptime = downtime = 0 when
\* the device has no event at all.
C12_EmptyWindowHeldStatus ==
    EmptyWindow =>
        LET windowSeconds == (rep.windowEnd - rep.windowStart) \div 1000
        IN  IF RowsOfReport = {}
            THEN /\ rep.currentStatus = "unknown"
                 /\ rep.uptime = 0
                 /\ rep.downtime = 0
                 /\ rep.outages = << >>
            ELSE \E i \in RowsOfReport :
                    /\ \A j \in RowsOfReport :
                          deviceAvailability[j].timestamp <= deviceAvailability[i].timestamp
                    /\ rep.currentStatus = deviceAvailability[i].status
                    /\ rep.lastStateChange = deviceAvailability[i].timestamp
                    /\ rep.uptime = IF rep.currentStatus = "up" THEN windowSeconds ELSE 0
                    /\ rep.downtime = IF rep.currentStatus = "down" THEN windowSeconds ELSE 0

\* a report over an empty window of a device last seen down after having been up
C12_Witness ==
    /\ EmptyWindow
    /\ rep.currentStatus = "down"
    /\ rep.downtime = 300
    /\ rep.uptime = 0
    /\ \E i \in RowsOfReport : deviceAvailability[i].status = "up"

\* uptime + downtime of a finished report before rounding, in milliseconds
TotalMsOfReport ==
    IF Len(rep.stateChanges) = 0
    THEN (IF rep.currentStatus \in Status THEN rep.windowEnd - rep.windowStart ELSE 0)
    ELSE HeldMs(rep.stateChanges, rep.windowEnd, "up")
           + HeldMs(rep.stateChanges, rep.windowEnd, "down")

InitDowntime ==
    InitIdle

NextDowntime ==
    \/ \E u \in Users, startTime \in PlanTimes, endTime \in PlanTimes,
          recurring \in RecurringKinds, dbOk \in BOOLEAN :
          /\ Len(plannedDowntime) < MaxWindows
          /\ CreatePlannedDowntime(u, "d1", startTime, endTime, recurring, dbOk)
    \/ \E u \in Users, startTime \in QueryTimes, endTime \in QueryTimes,
          dbOk \in BOOLEAN :
          /\ startTime < endTime
          /\ CalculateExcludedTime(u, "d1", startTime, endTime, dbOk)

SpecDowntime == InitDowntime /\ [][NextDowntime]_vars

\* the stored windows of the device the last call was about
WindowsOfCall ==
    { i \in DOMAIN plannedDowntime :
        /\ plannedDowntime[i].userId = ret.userId
        /\ plannedDowntime[i].deviceId = ret.deviceId }

\* milliseconds [from, to] and window w have in common, 0 unless they overlap
IntersectionMs(w, from, to) ==
    IF w.startTime < to /\ from < w.endTime
    THEN (IF w.endTime <= to THEN w.endTime ELSE to)
           - (IF w.startTime >= from THEN w.startTime ELSE from)
    ELSE 0

\* the sum of IntersectionMs over the windows of the call
IntersectionSumMs ==
    LET n == Len(plannedDowntime)
        sum[i \in 0..n] ==
            IF i = 0 THEN 0
            ELSE sum[i - 1]
                 + (IF i \in WindowsOfCall
                    THEN IntersectionMs(plannedDowntime[i], ret.startTime, ret.endTime)
                    ELSE 0)
    IN  sum[n]

\* calculateExcludedTime has answered, from the table, for a device without
\* recurring windows
ExcludedNonRecurring ==
    /\ ret.op = "excluded"
    /\ ret.dbOk
    /\ \A i \in WindowsOfCall : plannedDowntime[i].recurring = "none"

\* C14: with non-recurring windows calculateExcludedTime returns the sum, over the
\* device's windows, of the intersection of [window.startTime, window.endTime]
\* with [windowStart, windowEnd] in whole seconds (nothing for a window that
\* does not strictly overlap), never a negative number; one window [T, T+3600s]
\* inside a range of 7200 s gives 3600.
C14_ExcludedIsIntersectionSum ==
    ExcludedNonRecurring =>
        /\ ret.result = IntersectionSumMs \div 1000
        /\ ret.result >= 0
        /\ ( /\ Cardinality(WindowsOfCall) = 1
             /\ ret.endTime - ret.startTime = 7200 * Second
             /\ \A i \in WindowsOfCall :
                   /\ plannedDowntime[i].endTime - plannedDowntime[i].startTime
                        = 3600 * Second
                   /\ ret.startTime <= plannedDowntime[i].startTime
                   /\ plannedDowntime[i].endTime <= ret.endTime )
            => ret.result = 3600

\* one window of an hour inside a range of two hours, 3600 s excluded
C14_Witness ==
    /\ ExcludedNonRecurring
    /\ Cardinality(WindowsOfCall) = 1
    /\ ret.endTime - ret.startTime = 7200 * Second
    /\ \A i \in WindowsOfCall :
          /\ plannedDowntime[i].endTime - plannedDowntime[i].startTime = 3600 * Second
          /\ ret.startTime < plannedDowntime[i].startTime
          /\ plannedDowntime[i].endTime < ret.endTime
    /\ ret.result = 3600

\* C15: a recurring window counts with every occurrence inside the range asked
\* about: a daily window whose occurrence of the next day lies inside the range
\* contributes its whole length.
C15_DailyOccurrenceCounted ==
    (ret.op = "excluded" /\ ret.dbOk) =>
        \A i \in WindowsOfCall :
            LET w == plannedDowntime[i]
            IN  ( /\ w.recurring = "daily"
                  /\ ret.startTime <= w.startTime + Day
                  /\ w.endTime + Day <= ret.endTime )
                => ret.result >= (w.endTime - w.startTime) \div 1000

\* a createPlannedDowntime call returns in this step
CreateReturns ==
    /\ ret'.op = "create"
    /\ <<ret, plannedDowntime>>' # <<ret, plannedDowntime>>

\* exactly one window, that of the call, is added in this step
OneWindowStored ==
    /\ Len(plannedDowntime') = Len(plannedDowntime) + 1
    /\ \A i \in DOMAIN plannedDowntime : plannedDowntime'[i] = plannedDowntime[i]
    /\ LET w == plannedDowntime'[Len(plannedDowntime')]
       IN  /\ w.userId = ret'.userId
           /\ w.deviceId = ret'.deviceId
           /\ w.startTime = StoredTimestamp(ret'.startTime)
           /\ w.endTime = StoredTimestamp(ret'.endTime)

\* C16: createPlannedDowntime called with startTime >= endTime returns null and
\* leaves the stored windows unchanged; called with startTime < endTime, the
\* database answering, it stores exactly one new window (and whenever it returns
\* null it has stored nothing).
C16_InvalidRangeRejected ==
    [][ CreateReturns =>
          /\ (ret'.startTime >= ret'.endTime)
               => (ret'.result = "null" /\ UNCHANGED plannedDowntime)
          /\ (ret'.startTime < ret'.endTime /\ ret'.dbOk)
               => (ret'.result # "null" /\ OneWindowStored)
          /\ (ret'.result = "null") => UNCHANGED plannedDowntime
      ]_vars

\* a call with startTime = endTime has returned null after a window was stored
C16_Witness ==
    /\ ret.op = "create"
    /\ ret.startTime >= ret.endTime
    /\ ret.dbOk
    /\ ret.result = "null"
    /\ Len(plannedDowntime) = 1

\* C19: getDevicesAvailabilityStats gives each device the uptime percentage
\* getAvailabilityReport gives the same device for the same account and period
\* over the same event log.
C19_StatsAgreeWithReport ==
    ( /\ rep.pc = "done"
      /\ ret.op = "stats"
      /\ ret.userId = rep.userId
      /\ ret.period = rep.period
      /\ rep.deviceId \in DOMAIN ret.stats )
    => (ret.stats[rep.deviceId].uptimePercentageX100 = rep.uptimePercentageX100)

RECURSIVE OutageMs(_, _)
\* the durations of the outages from the i-th on, summed
OutageMs(outages, i) ==
    IF i > Len(outages) THEN 0 ELSE outages[i].durationMs + OutageMs(outages, i + 1)

\* the down-status intervals of a finished report: one per down row in the
\* window, or the whole period for a device last known down with no row in it
DownIntervals ==
    IF Len(rep.stateChanges) = 0
    THEN (IF rep.currentStatus = "down" THEN 1 ELSE 0)
    ELSE Cardinality({ i \in DOMAIN rep.stateChanges : rep.stateChanges[i].status = "down" })

\* C30: in every report the downtime is the sum of the durations of the listed
\* outages (to the whole second the report rounds to), and the outages are one
\* record per down-status interval in ascending start order, also for a window
\* without events of a device whose last known status is down.
C30_DowntimeIsOutageSum ==
    (rep.pc = "done") =>
        /\ rep.downtime = RoundSeconds(OutageMs(rep.outages, 1))
        /\ Len(rep.outages) = DownIntervals
        /\ \A i \in 1..(Len(rep.outages) - 1) :
              rep.outages[i].startTime <= rep.outages[i + 1].startTime

(***************************************************************************)
(* SpecExport: generateReportData over the values its collaborators return *)
(***************************************************************************)
InitExport ==
    InitIdle

NextExport ==
    \E period \in ExportPeriods, slaTargetX10 \in SlaTargetsX10, deviceFound \in BOOLEAN,
       downtime \in DownSeconds, uptimePercentageX100 \in PercentagesX100,
       excludedSeconds \in ExcludedSeconds :
        GenerateReportData(period, slaTargetX10, deviceFound,
                           [downtime |-> downtime,
                            uptimePercentage |-> uptimePercentageX100],
                           excludedSeconds)

SpecExport == InitExport /\ [][NextExport]_vars

\* generateReportData has returned a report
ReportExported ==
    /\ ret.op = "report"
    /\ ret.result = "data"

\* window length - excludedSeconds of the exported report
AvailableSeconds ==
    getPeriodDuration(ret.period) \div 1000 - ret.totalExcludedSeconds

\* C17: with availableSeconds = window length - excludedSeconds, achievedUptime is
\* 100 * (availableSeconds - downSeconds) / availableSeconds when availableSeconds
\* > 0 and 0 otherwise; compliant holds iff achievedUptime >= target;
\* breachDuration is 0 when compliant and, when not compliant with
\* availableSeconds > 0, it is (target / 100) * availableSeconds -
\* (availableSeconds - downSeconds), which is > 0.  Target 99.5 over 86400
\* available seconds: 360 down is compliant, 864 down is not.
C17_SlaEvaluation ==
    ReportExported =>
        LET avail == AvailableSeconds
            down == ret.downtime
        IN  /\ (avail > 0) =>
                  /\ ret.achieved = [num |-> 100 * (avail - down), den |-> avail]
                  /\ ret.compliant <=> (1000 * (avail - down) >= ret.target * avail)
            /\ (avail <= 0) => (ret.achieved.num = 0 /\ ~ret.compliant)
            /\ ret.compliant => (ret.breachDurationX1000 = 0)
            /\ (~ret.compliant /\ avail > 0) =>
                  /\ ret.breachDurationX1000
                       = ret.target * avail - 1000 * (avail - down)
                  /\ ret.breachDurationX1000 > 0
            /\ (ret.target = 995 /\ avail = 86400 /\ down = 360) =>
                  (ret.compliant /\ ret.breachDurationX1000 = 0)
            /\ (ret.target = 995 /\ avail = 86400 /\ down = 864) =>
                  (~ret.compliant /\ ret.breachDurationX1000 > 0)

\* target 99.5 over 86400 available seconds with 864 of them down: a breach of 432 s
C17_Witness ==
    /\ ReportExported
    /\ ret.target = 995
    /\ AvailableSeconds = 86400
    /\ ret.downtime = 864
    /\ ~ret.compliant
    /\ ret.breachDurationX1000 = 432000

\* C18: the status label of the report export is the label the dashboard
\* indicator gives the same percentage: excellent from 99.9, very-good from 99,
\* good from 95, fair from 90, poor below.
C18_ExportLabelMatchesIndicator ==
    ReportExported => (ret.status = getStatus(ret.uptimePercentageX100))

(***************************************************************************)
(* SpecSla: generateReportData over a stored state-change table and the    *)
(* planned windows created before it                                       *)
(***************************************************************************)
\* generateReportData(userId, deviceId, period, slaTarget) for a device that
\* getDeviceById finds: the availability block is what getAvailabilityReport
\* returns, the excluded seconds what calculateExcludedTime returns for the period
GenerateReport(userId, deviceId, period, slaTargetX10) ==
    LET startTime == now - getPeriodDuration(period)
        inWindow == StateChangesInRange(deviceAvailability, userId, deviceId,
                                        startTime, now)
        last == LastStates(deviceAvailability, userId, deviceId)
        excludedSeconds == calculateExcludedTime(plannedDowntime, userId, deviceId,
                                                 startTime, now, TRUE)
    IN  \E stateChanges \in OrderedByTimestamp(inWindow) :
        \E lastState \in IF last = {} THEN { << >> } ELSE { <<r>> : r \in last } :
            LET availability == AvailabilityReport(userId, deviceId, period, now,
                                                   stateChanges, lastState)
            IN  GenerateReportData(period, slaTargetX10, TRUE,
                                   [downtime |-> availability.downtime,
                                    uptimePercentage |-> availability.uptimePercentageX100],
                                   excludedSeconds)

InitSla ==
    /\ now = Epoch + 3600 * Second
    /\ deviceAvailability \in { t \in StoredTables : Len(t) <= 1 }
    /\ deviceAvailabilityEvents = << >>
    /\ flappingEvents = << >>
    /\ detectorRuns = {}
    /\ pollingStates = EmptyMap
    /\ pollingIntervals = EmptyMap
    /\ timers = {}
    /\ startCalls = NoStartCalls
    /\ ticks = << >>
    /\ stopRequested = [u \in Users |-> FALSE]
    /\ fp = IdleFastPoll
    /\ rep = IdleReport
    /\ plannedDowntime = << >>
    /\ ret = NoReturn
    /\ detects = << >>

NextSla ==
    \/ \E startTime \in PlanTimes, endTime \in PlanTimes :
          /\ Len(plannedDowntime) < MaxWindows
          /\ CreatePlannedDowntime(1, "d1", startTime, endTime, "none", TRUE)
    \/ \E slaTargetX10 \in SlaTargetsX10 : GenerateReport(1, "d1", "1h", slaTargetX10)

SpecSla == InitSla /\ [][NextSla]_vars

\* C27: the achievedUptime of every exported report lies in [0, 100]: the
\* excluded seconds do not exceed the length of the period, also with planned
\* windows that overlap each other, and the down seconds do not exceed the
\* available seconds, also with downtime inside a planned window.
C27_AchievedWithinRange ==
    ReportExported =>
        /\ ret.achieved.num >= 0
        /\ ret.achieved.num <= 100 * ret.achieved.den
        /\ ret.totalExcludedSeconds <= getPeriodDuration(ret.period) \div 1000
        /\ ret.downtime <= AvailableSeconds

(***************************************************************************)
(* SpecRequests: the mutations of both accounts on the planned windows and *)
(* on two stored incidents, one of each account                            *)
(***************************************************************************)
\* the start and end times plannedDowntime.update is called with
UpdateTimes == {Epoch, Epoch + 3600 * Second}

\* the updates of a request: each of startTime and endTime given or not
UpdateInputs ==
    UNION { [given -> UpdateTimes] : given \in SUBSET {"startTime", "endTime"} }

\* the ids a request may name: those given out so far and the next one
RequestIds(rows) ==
    1..(Len(rows) + 1)

InitRequests ==
    /\ now = Epoch
    /\ deviceAvailabilityEvents = << >>
    /\ deviceAvailability = << >>
    /\ flappingEvents = [ u \in Users |-> FlappingRow(u, "d1", FLAPPING_THRESHOLD, Epoch) ]
    /\ detectorRuns = {}
    /\ pollingStates = EmptyMap
    /\ pollingIntervals = EmptyMap
    /\ timers = {}
    /\ startCalls = NoStartCalls
    /\ ticks = << >>
    /\ stopRequested = [u \in Users |-> FALSE]
    /\ fp = IdleFastPoll
    /\ rep = IdleReport
    /\ plannedDowntime = << >>
    /\ ret = NoReturn
    /\ detects = << >>

NextRequests ==
    \/ \E u \in Users, startTime \in PlanTimes, endTime \in PlanTimes :
          /\ Len(plannedDowntime) < MaxWindows
          /\ CreatePlannedDowntime(u, "d1", startTime, endTime, "none", TRUE)
    \/ \E u \in Users, windowId \in RequestIds(plannedDowntime),
          updates \in UpdateInputs, dbOk \in BOOLEAN :
          UpdateRequest(u, windowId, updates, dbOk)
    \/ \E u \in Users, windowId \in RequestIds(plannedDowntime), dbOk \in BOOLEAN :
          DeleteRequest(u, windowId, dbOk)
    \/ \E u \in Users, eventId \in RequestIds(flappingEvents), dbOk \in BOOLEAN :
          AcknowledgeRequest(u, eventId, dbOk)

SpecRequests == InitRequests /\ [][NextRequests]_vars

\* C28: whatever creates, updates and deletes were made, every stored planned
\* window has startTime < endTime.
C28_StoredWindowsOrdered ==
    \A i \in StoredWindows : plannedDowntime[i].startTime < plannedDowntime[i].endTime

\* C29: an acknowledge, update or delete request of one account changes no
\* incident and no planned window of another account, whatever id it names.
C29_RequestsKeepToOwnRows ==
    [][ (ret'.op \in {"acknowledge", "update", "delete"}) =>
          /\ \A i \in DOMAIN plannedDowntime :
                plannedDowntime[i].userId # ret'.caller
                  => plannedDowntime'[i] = plannedDowntime[i]
          /\ \A i \in DOMAIN flappingEvents :
                flappingEvents[i].userId # ret'.caller
                  => flappingEvents'[i] = flappingEvents[i]
      ]_vars

(***************************************************************************)
(* Spec: the polling scheduler, start and stop calls racing with ticks     *)
(***************************************************************************)
Init ==
    /\ now = Epoch
    /\ deviceAvailabilityEvents = << >>
    /\ deviceAvailability = << >>
    /\ flappingEvents = << >>
    /\ detectorRuns = {}
    /\ pollingStates = EmptyMap
    /\ pollingIntervals = EmptyMap
    /\ timers = {}
    /\ startCalls = NoStartCalls
    /\ ticks = [s \in 1..MaxTicks |-> IdleTick]
    /\ stopRequested = [u \in Users |-> FALSE]
    /\ fp = IdleFastPoll
    /\ rep = IdleReport
    /\ plannedDowntime = << >>
    /\ ret = NoReturn
    /\ detects = << >>

\* no further tick or recordEvent call begins once the log holds MaxPollEvents rows
LogOpen ==
    Len(deviceAvailabilityEvents) < MaxPollEvents

\* what getDevices can answer each account
AllResponses ==
    [ u \in Users |-> ListResponses(u) ]

\* what getDevices answers while only the first device of each inventory is
\* installed, and connected
FirstDeviceResponses ==
    [ u \in Users |->
        { r \in ListResponses(u) : r.kind = "data" => Len(r.devices) = 0 }
        \cup { [kind |-> "data",
                devices |-> << [id |-> Inventory[u][1], connected |-> TRUE] >>] } ]

\* the steps of pollUserDevices, with the getDevices answers drawn from R[userId]
TickStep(R) ==
    \/ \E s \in DOMAIN ticks, tok \in TokenStates : TickToken(s, tok)
    \/ \E s \in DOMAIN ticks : TickThrows(s)
    \/ \E s \in DOMAIN ticks, u \in Users :
          \E response \in R[u] : ticks[s].userId = u /\ TickFetch(s, response)
    \/ \E s \in DOMAIN ticks, insertOk \in BOOLEAN : TickRecord(s, insertOk)
    \/ \E s \in DOMAIN ticks, legacyOk \in BOOLEAN : TickLegacy(s, legacyOk)

Next ==
    \/ \E u \in Users :
          /\ LogOpen
          /\ InFlightStarts < MaxStartCalls
          /\ Cardinality(timers) + InFlightStarts < MaxTimers
          /\ StartPolling(u)
    \/ \E u \in Users, enabled \in BOOLEAN : StartConfigDone(u, enabled)
    \/ \E u \in Users : StopPolling(u)
    \/ StopAllPolling
    \/ \E t \in timers : LogOpen /\ TickFire(t)
    \/ TickStep(FirstDeviceResponses)

Spec == Init /\ [][Next]_vars

\* a pollUserDevices invocation for account u begins in this step
TickBegins(u) ==
    \E s \in DOMAIN ticks :
        /\ ticks[s].pc = "idle"
        /\ ticks'[s].pc = "token"
        /\ ticks'[s].userId = u

\* C2: once stopPolling(account) has returned, no polling tick begins for that
\* account until a later startPolling call is made, in every interleaving of
\* start and stop, a stop issued while a startPolling call awaits included.
C2_NoTickAfterStop ==
    [][ \A u \in Users : TickBegins(u) => ~stopRequested[u] ]_vars

\* the live timers of account u
TimersOf(u) ==
    { t \in timers : t.userId = u }

\* C3: each account has at most one live periodic timer and every live timer is
\* the one registered in pollingIntervals, so no timer is live once
\* pollingIntervals is empty, as it is after stopAllPolling.
C3_OneRegisteredTimer ==
    /\ \A u \in Users : Cardinality(TimersOf(u)) <= 1
    /\ \A t \in timers :
          /\ t.userId \in DOMAIN pollingIntervals
          /\ pollingIntervals[t.userId] = t.id

(***************************************************************************)
(* SpecPoll: the ticks of scheduled accounts                               *)
(***************************************************************************)
\* the state after startPolling has completed for every account, each with an
\* empty first answer
InitPoll ==
    /\ now = Epoch
    /\ deviceAvailabilityEvents = << >>
    /\ deviceAvailability = << >>
    /\ flappingEvents = << >>
    /\ detectorRuns = {}
    /\ pollingStates = EmptyMap
    /\ pollingIntervals = [u \in Users |-> u]
    /\ timers = { [id |-> u, userId |-> u] : u \in Users }
    /\ startCalls = NoStartCalls
    /\ ticks = [s \in 1..MaxTicks |-> IdleTick]
    /\ stopRequested = [u \in Users |-> FALSE]
    /\ fp = IdleFastPoll
    /\ rep = IdleReport
    /\ plannedDowntime = << >>
    /\ ret = NoReturn
    /\ detects = << >>

NextPoll ==
    \/ \E t \in timers : LogOpen /\ TickFire(t)
    \/ TickStep(AllResponses)

SpecPoll == InitPoll /\ [][NextPoll]_vars

(***************************************************************************)
(* SpecLog: the writers of the event log, ticks and recordEvent calls,     *)
(* as time passes                                                          *)
(***************************************************************************)
NextLog ==
    \/ NextPoll
    \/ \E u \in Users, st \in Status, insertOk \in BOOLEAN :
          \E i \in DOMAIN Inventory[u] :
              LogOpen /\ RecordEvent(u, Inventory[u][i], st, "trap", insertOk)
    \/ AdvanceClock /\ LogOpen

SpecLog == InitPoll /\ [][NextLog]_vars

\* C4: a tick appends exactly one event with detectionMethod polling for a device
\* whose reported status differs from lastStatus (or that has no prior state) and
\* then sets lastStatus to the reported status; every other step of a tick
\* appends nothing and leaves every lastStatus as it is.
C4_TickAppendsOnMismatch ==
    [][ \A s \in DOMAIN ticks :
          /\ (ticks[s].pc = "record" /\ ticks'[s] # ticks[s])
               => deviceAvailabilityEvents' =
                    Append(deviceAvailabilityEvents, TickEventRow(s))
          /\ (ticks[s].pc = "legacy" /\ ticks'[s] # ticks[s])
               => /\ pollingStates'[<<ticks[s].userId, TickDevice(s)>>].lastStatus
                       = TickStatus(s)
                  /\ deviceAvailabilityEvents' = deviceAvailabilityEvents
          /\ (ticks[s].pc \in {"token", "fetch"} /\ ticks'[s] # ticks[s])
               => /\ deviceAvailabilityEvents' = deviceAvailabilityEvents
                  /\ \A key \in DOMAIN pollingStates :
                        pollingStates'[key].lastStatus = pollingStates[key].lastStatus
      ]_vars

\* a tick went on past the credential lookup only with a present, unexpired token
TicksHoldValidToken ==
    \A s \in DOMAIN ticks :
        ticks[s].pc \in {"fetch", "record", "legacy"} => ticks[s].token = "valid"

\* the tick of slot s returns in this step for want of a credential or on an
\* error answer of getDevices
TickSkipped(s) ==
    /\ ticks[s].pc \in {"token", "fetch"}
    /\ ticks'[s].pc = "idle"
    /\ ticks'[s].last \in {"notoken", "error", "caught"}

\* C5: a tick without a valid (present and unexpired) credential, or whose
\* getDevices call returns an error, leaves the event log, the legacy table and
\* every pollingStates entry unchanged; only a tick holding a valid credential
\* gets as far as the device list.
C5_FailedTickChangesNothing ==
    /\ []TicksHoldValidToken
    /\ [][ \A s \in DOMAIN ticks :
              TickSkipped(s) =>
                  UNCHANGED <<deviceAvailabilityEvents, deviceAvailability,
                              pollingStates>> ]_vars

\* a tick has ended on an error answer while a device's status was on record
C5_Witness ==
    \E s \in DOMAIN ticks :
        /\ ticks[s].pc = "idle"
        /\ ticks[s].last = "error"
        /\ Len(deviceAvailabilityEvents) > 0
        /\ \E key \in DOMAIN pollingStates : pollingStates[key].lastStatus = "up"

\* C8: once the operation that appended it has returned, every row of the event
\* log, whether recordEvent or a polling tick appended it, has had a flapping
\* detector run for its device whose query saw the row.
C8_EveryAppendRunsDetector ==
    (\A s \in DOMAIN ticks : ticks[s].pc # "legacy")
    => \A id \in DOMAIN deviceAvailabilityEvents : id \in detectorRuns

(***************************************************************************)
(* SpecOverlap: ticks that outlast the interval, so that the next tick of   *)
(* the account begins while the earlier one is at an await; every device    *)
(* listed is connected throughout                                           *)
(***************************************************************************)
InitOverlap ==
    /\ now = Epoch
    /\ deviceAvailabilityEvents = << >>
    /\ deviceAvailability = << >>
    /\ flappingEvents = << >>
    /\ detectorRuns = {}
    /\ pollingStates = EmptyMap
    /\ pollingIntervals = [u \in Users |-> u]
    /\ timers = { [id |-> u, userId |-> u] : u \in Users }
    /\ startCalls = NoStartCalls
    /\ ticks = [s \in 1..OverlappingTicks |-> IdleTick]
    /\ stopRequested = [u \in Users |-> FALSE]
    /\ fp = IdleFastPoll
    /\ rep = IdleReport
    /\ plannedDowntime = << >>
    /\ ret = NoReturn
    /\ detects = << >>

NextOverlap ==
    \/ \E t \in timers : LogOpen /\ TickFire(t)
    \/ TickStep(FirstDeviceResponses)

SpecOverlap == InitOverlap /\ [][NextOverlap]_vars

\* the rows of the event log that polling appended for one device
PollingRows(userId, deviceId) ==
    { i \in DOMAIN deviceAvailabilityEvents :
        /\ deviceAvailabilityEvents[i].userId = userId
        /\ deviceAvailabilityEvents[i].deviceId = deviceId
        /\ deviceAvailabilityEvents[i].detectionMethod = "polling" }

\* C20: overlapping ticks of one account never interleave their
\* read-compare-write on a device's polling state: the single status change of
\* a device (first seen, connected ever after) appends at most one event.
C20_OneEventPerStatusChange ==
    \A u \in Users : Cardinality(PollingRows(u, Inventory[u][1])) <= 1

\* C23: the events of one (account, device), in insertion order, have
\* non-decreasing startTime, whichever writers (polling ticks, recordEvent
\* calls) appended them.
C23_LogOrderedPerDevice ==
    \A i, j \in DOMAIN deviceAvailabilityEvents :
        ( /\ i < j
          /\ deviceAvailabilityEvents[i].userId = deviceAvailabilityEvents[j].userId
          /\ deviceAvailabilityEvents[i].deviceId = deviceAvailabilityEvents[j].deviceId )
        => deviceAvailabilityEvents[i].startTime <= deviceAvailabilityEvents[j].startTime

\* C24: a tick of account A that fails (no valid credential, an error answer of
\* getDevices, an exception caught while polling) returns to the timer loop
\* like any other tick; it leaves the timers and the pollingIntervals entry of
\* every other account B as they are and changes no pollingStates entry of B.
C24_FailedTickSparesOthers ==
    [][ \A s \in DOMAIN ticks :
          TickSkipped(s) =>
              LET a == ticks[s].userId
              IN  /\ { t \in timers' : t.userId # a } = { t \in timers : t.userId # a }
                  /\ \A b \in Users \ {a} :
                        /\ (b \in DOMAIN pollingIntervals) <=> (b \in DOMAIN pollingIntervals')
                        /\ b \in DOMAIN pollingIntervals
                              => pollingIntervals'[b] = pollingIntervals[b]
                  /\ DOMAIN pollingStates' = DOMAIN pollingStates
                  /\ \A key \in DOMAIN pollingStates :
                        key[1] # a => pollingStates'[key] = pollingStates[key]
                  /\ \A r \in DOMAIN ticks \ {s} : ticks'[r] = ticks[r]
      ]_vars

\* a tick of one account ended on a caught exception while the other account
\* has a status on record and its timer is live
C24_Witness ==
    \E s \in DOMAIN ticks, b \in Users :
        /\ ticks[s].pc = "idle"
        /\ ticks[s].last = "caught"
        /\ \E t \in timers : t.userId = b
        /\ \E key \in DOMAIN pollingStates :
              key[1] = b /\ pollingStates[key].lastStatus = "down"
        /\ \A key \in DOMAIN pollingStates : key[1] = b

\* the latest row polling appended for a device
LatestPollingRow(userId, deviceId) ==
    LET rows == PollingRows(userId, deviceId)
    IN  deviceAvailabilityEvents[CHOOSE i \in rows : \A j \in rows : j <= i]

\* C26: once the ticks have completed, the lastStatus of every device they
\* processed is the status of the latest polling event stored for the device;
\* a tick does not advance lastStatus for an event that was not written.
C26_LastStatusIsLatestEvent ==
    (\A s \in DOMAIN ticks : ticks[s].pc = "idle") =>
        \A key \in DOMAIN pollingStates :
            pollingStates[key].lastStatus # "null" =>
                /\ PollingRows(key[1], key[2]) # {}
                /\ LatestPollingRow(key[1], key[2]).status = pollingStates[key].lastStatus

====
